---- MODULE Spec2Model ----
(***************************************************************************)
(* A model of keichi/rgb: the memory manager (src/mmu.rs) and the CPU      *)
(* interpreter (src/cpu.rs).  A CPU value is a record with the fields of   *)
(* struct CPU; every method `fn m(&mut self, ..)` is an operator           *)
(* m(self, ..) that returns the CPU after the call.  Bytes and words are   *)
(* naturals kept in their width (u8: 0..255, u16: 0..65535).               *)
(***************************************************************************)
EXTENDS Integers, Sequences, FiniteSets, TLC

VARIABLES
    mmu,    \* <<m>>: the MMU while the host owns it; << >> once moved into the CPU
    cpu,    \* << >> before CPU::new; <<c>>: the CPU (c.mmu is its memory manager)
    hist,   \* the CPU values before each step() made so far, oldest first
    call    \* the host's calls on the MMU so far: name, address, value, MMU before

vars == <<mmu, cpu, hist, call>>

---------------------------------------------------------------------------
(* Fixed-width integer arithmetic, as rustc defines it for u8 and u16.     *)

RECURSIVE BitAnd(_, _)
BitAnd(x, y) ==
    IF x = 0 \/ y = 0 THEN 0
    ELSE ((x % 2) * (y % 2)) + (2 * BitAnd(x \div 2, y \div 2))

BitOr(x, y) == x + y - BitAnd(x, y)

BitXor(x, y) == x + y - (2 * BitAnd(x, y))

Not8(x) == 255 - x

Shl8(x, n) == (x * 2^n) % 256

Shl16(x, n) == (x * 2^n) % 65536

Shr(x, n) == x \div 2^n

wrapping_add8(x, y) == (x + y) % 256

wrapping_sub8(x, y) == (x - y) % 256


\* u16 addition that saturates at 0xffff instead of wrapping.
saturating_add16(x, y) == IF x + y > 65535 THEN 65535 ELSE x + y

wrapping_add16(x, y) == (x + y) % 65536

wrapping_sub16(x, y) == (x - y) % 65536

\* u8::overflowing_add / overflowing_sub: the wrapped result and the overflow bit.
overflowing_add8(x, y) == [res |-> (x + y) % 256, carry |-> x + y > 255]

overflowing_sub8(x, y) == [res |-> (x - y) % 256, carry |-> x < y]

overflowing_add16(x, y) == [res |-> (x + y) % 65536, carry |-> x + y > 65535]

\* u8::rotate_left(1) / rotate_right(1).
rotate_left8(x) == ((x * 2) % 256) + (x \div 128)

rotate_right8(x) == (x \div 2) + ((x % 2) * 128)

\* u8::from(bool).
FromBool(p) == IF p THEN 1 ELSE 0

\* `x as i8 as u16` / `x as i8 as i16 as u16`: sign extension of a byte.
SignExtend(x) == IF x >= 128 THEN x + 65280 ELSE x

---------------------------------------------------------------------------
(* Vec<u8>: a vector is its length and its non-zero entries (`at`); every   *)
(* other index below the length reads 0.  Indexing at or past the length   *)
(* panics: such a read yields no byte (-1 stands for it), such a write     *)
(* sets `fault`.                                                           *)

VecGet(v, i) ==
    IF i >= v.len THEN -1 ELSE IF i \in DOMAIN v.at THEN v.at[i] ELSE 0

VecSet(v, i, val) ==
    IF i >= v.len THEN [v EXCEPT !.fault = TRUE]
    ELSE [v EXCEPT !.at =
            [k \in (IF val = 0 THEN DOMAIN v.at \ {i} ELSE DOMAIN v.at \cup {i}) |->
                IF k = i THEN val ELSE v.at[k]]]

\* vec![0; n]
Zeros(n) == [len |-> n, at |-> [k \in {} |-> 0], fault |-> FALSE]

\* The lengths of boot_rom (checked at construction), ram and hram.
BootLen == 256

RamLen == 8192

HramLen == 127

---------------------------------------------------------------------------
(* src/mmu.rs                                                              *)

\* MMU::new with a boot file of exactly 0x100 bytes (any other length panics).
MMU_new(image) == [boot_rom |-> image, ram |-> Zeros(RamLen), hram |-> Zeros(HramLen)]


\* write treating 0xe000..0xfdff as a mirror of working RAM.

\* write storing into the boot image as well.
write_boot_rom(m, addr, val) ==
    CASE addr >= 0 /\ addr <= 255 ->
            [m EXCEPT !.boot_rom = VecSet(m.boot_rom, addr, val)]
      [] addr >= 49152 /\ addr <= 57343 ->
            [m EXCEPT !.ram = VecSet(m.ram, BitAnd(addr, 8191), val)]
      [] addr >= 65408 /\ addr <= 65534 ->
            [m EXCEPT !.hram = VecSet(m.hram, BitAnd(addr, 127), val)]
      [] OTHER -> m


\* write with the high RAM arm storing into ram instead of hram.
write_hram_into_ram(m, addr, val) ==
    CASE addr >= 49152 /\ addr <= 57343 ->
            [m EXCEPT !.ram = VecSet(m.ram, BitAnd(addr, 8191), val)]
      [] addr >= 65408 /\ addr <= 65534 ->
            [m EXCEPT !.ram = VecSet(m.ram, BitAnd(addr, 127), val)]
      [] OTHER -> m

write_echo_ram(m, addr, val) ==
    CASE addr >= 49152 /\ addr <= 65023 ->
            [m EXCEPT !.ram = VecSet(m.ram, BitAnd(addr, 8191), val)]
      [] addr >= 65408 /\ addr <= 65534 ->
            [m EXCEPT !.hram = VecSet(m.hram, BitAnd(addr, 127), val)]
      [] OTHER -> m

write(m, addr, val) ==
    CASE addr >= 49152 /\ addr <= 57343 ->
            [m EXCEPT !.ram = VecSet(m.ram, BitAnd(addr, 8191), val)]
      [] addr >= 65408 /\ addr <= 65534 ->
            [m EXCEPT !.hram = VecSet(m.hram, BitAnd(addr, 127), val)]
      [] OTHER -> m


\* read returning 0x00 for an address no region holds.
read_unmapped_as_zero(m, addr) ==
    CASE addr >= 0 /\ addr <= 255 -> VecGet(m.boot_rom, addr)
      [] addr >= 49152 /\ addr <= 57343 -> VecGet(m.ram, BitAnd(addr, 8191))
      [] addr >= 65408 /\ addr <= 65534 -> VecGet(m.hram, BitAnd(addr, 127))
      [] OTHER -> 0

\* read with the high RAM arm reaching 0xffff, one past hram's last index.
read_hram_to_ffff(m, addr) ==
    CASE addr >= 0 /\ addr <= 255 -> VecGet(m.boot_rom, addr)
      [] addr >= 49152 /\ addr <= 57343 -> VecGet(m.ram, BitAnd(addr, 8191))
      [] addr >= 65408 /\ addr <= 65535 -> VecGet(m.hram, BitAnd(addr, 127))
      [] OTHER -> 255

read(m, addr) ==
    CASE addr >= 0 /\ addr <= 255 -> VecGet(m.boot_rom, addr)
      [] addr >= 49152 /\ addr <= 57343 -> VecGet(m.ram, BitAnd(addr, 8191))
      [] addr >= 65408 /\ addr <= 65534 -> VecGet(m.hram, BitAnd(addr, 127))
      [] OTHER -> 255


\* write16 storing the high byte first (big-endian).
write16_big_endian(m, addr, val) ==
    write(write(m, addr, BitAnd(Shr(val, 8), 255)),
          wrapping_add16(addr, 1), BitAnd(val, 255))

write16(m, addr, val) ==
    write(write(m, addr, BitAnd(val, 255)),
          wrapping_add16(addr, 1), BitAnd(Shr(val, 8), 255))

read16(m, addr) ==
    LET lo == read(m, addr)
        hi == read(m, wrapping_add16(addr, 1))
    IN BitOr(Shl16(hi, 8), lo)

---------------------------------------------------------------------------
(* src/cpu.rs: construction, register pairs, flags, operand access         *)

\* panic: << >> while the process runs, the panic message once it has aborted.

\* CPU::new starting at the boot image's first byte.
CPU_new_at_boot(m) ==
    [mmu |-> m, pc |-> 0, sp |-> 0, a |-> 0, f |-> 0, b |-> 0, c |-> 0,
     d |-> 0, e |-> 0, h |-> 0, l |-> 0, panic |-> << >>]

CPU_new(m) ==
    [mmu |-> m, pc |-> 256, sp |-> 0, a |-> 0, f |-> 0, b |-> 0, c |-> 0,
     d |-> 0, e |-> 0, h |-> 0, l |-> 0, panic |-> << >>]

\* An abort that is swallowed: execution goes on.
Panic_swallowed(self, msg) == self

Panic(self, msg) == [self EXCEPT !.panic = msg]

af(self) == BitOr(Shl16(self.a, 8), self.f)

set_af(self, val) ==
    [self EXCEPT !.a = BitAnd(Shr(val, 8), 255), !.f = BitAnd(val, 255)]

bc(self) == BitOr(Shl16(self.b, 8), self.c)

set_bc(self, val) ==
    [self EXCEPT !.b = BitAnd(Shr(val, 8), 255), !.c = BitAnd(val, 255)]

de(self) == BitOr(Shl16(self.d, 8), self.e)

set_de(self, val) ==
    [self EXCEPT !.d = BitAnd(Shr(val, 8), 255), !.e = BitAnd(val, 255)]

hl(self) == BitOr(Shl16(self.h, 8), self.l)

set_hl(self, val) ==
    [self EXCEPT !.h = BitAnd(Shr(val, 8), 255), !.l = BitAnd(val, 255)]

set_f_z(self, z) ==
    [self EXCEPT !.f = BitOr(BitAnd(self.f, Not8(Shl8(1, 7))), Shl8(FromBool(z), 7))]

f_z(self) == BitAnd(Shr(self.f, 7), 1) = 1

set_f_n(self, n) ==
    [self EXCEPT !.f = BitOr(BitAnd(self.f, Not8(Shl8(1, 6))), Shl8(FromBool(n), 6))]

f_n(self) == BitAnd(Shr(self.f, 6), 1) = 1

set_f_h(self, hc) ==
    [self EXCEPT !.f = BitOr(BitAnd(self.f, Not8(Shl8(1, 5))), Shl8(FromBool(hc), 5))]

f_h(self) == BitAnd(Shr(self.f, 5), 1) = 1

set_f_c(self, cy) ==
    [self EXCEPT !.f = BitOr(BitAnd(self.f, Not8(Shl8(1, 4))), Shl8(FromBool(cy), 4))]

f_c(self) == BitAnd(Shr(self.f, 4), 1) = 1

\* The four flag writes every ALU handler ends with, in the order z, n, h, c.
SetFlags(self, z, n, hc, cy) == set_f_c(set_f_h(set_f_n(set_f_z(self, z), n), hc), cy)

write_r8(self, idx, val) ==
    CASE idx = 0 -> [self EXCEPT !.b = val]
      [] idx = 1 -> [self EXCEPT !.c = val]
      [] idx = 2 -> [self EXCEPT !.d = val]
      [] idx = 3 -> [self EXCEPT !.e = val]
      [] idx = 4 -> [self EXCEPT !.h = val]
      [] idx = 5 -> [self EXCEPT !.l = val]
      [] idx = 6 -> [self EXCEPT !.mmu = write(self.mmu, hl(self), val)]
      [] idx = 7 -> [self EXCEPT !.a = val]
      [] OTHER -> Panic(self, <<"Invalid operand index", idx>>)


\* read_r8 with the indexes of H and L exchanged.
read_r8_h_l_swapped(self, idx) ==
    CASE idx = 0 -> self.b
      [] idx = 1 -> self.c
      [] idx = 2 -> self.d
      [] idx = 3 -> self.e
      [] idx = 4 -> self.l
      [] idx = 5 -> self.h
      [] idx = 6 -> read(self.mmu, hl(self))
      [] idx = 7 -> self.a
      [] OTHER -> -1

\* An index outside 0..7 panics: no value is returned (-1 stands for it).
read_r8(self, idx) ==
    CASE idx = 0 -> self.b
      [] idx = 1 -> self.c
      [] idx = 2 -> self.d
      [] idx = 3 -> self.e
      [] idx = 4 -> self.h
      [] idx = 5 -> self.l
      [] idx = 6 -> read(self.mmu, hl(self))
      [] idx = 7 -> self.a
      [] OTHER -> -1

write_r16(self, idx, val) ==
    CASE idx = 0 -> set_bc(self, val)
      [] idx = 1 -> set_de(self, val)
      [] idx = 2 -> set_hl(self, val)
      [] idx = 3 -> [self EXCEPT !.sp = val]
      [] OTHER -> Panic(self, <<"Invalid operand index", idx>>)

\* An index outside 0..3 panics: no value is returned (-1 stands for it).
read_r16(self, idx) ==
    CASE idx = 0 -> bc(self)
      [] idx = 1 -> de(self)
      [] idx = 2 -> hl(self)
      [] idx = 3 -> self.sp
      [] OTHER -> -1

\* read_d8 leaving PC on the byte it read.
read_d8_without_advance(self) ==
    [self |-> self, imm |-> read(self.mmu, self.pc)]

\* read_d8 / read_d16 return the immediate and advance pc: [self, imm].
read_d8(self) ==
    [self |-> [self EXCEPT !.pc = wrapping_add16(self.pc, 1)],
     imm |-> read(self.mmu, self.pc)]


\* read_d16 advancing PC past one byte only.
read_d16_advance_one(self) ==
    [self |-> [self EXCEPT !.pc = wrapping_add16(self.pc, 1)],
     imm |-> read16(self.mmu, self.pc)]

read_d16(self) ==
    [self |-> [self EXCEPT !.pc = wrapping_add16(self.pc, 2)],
     imm |-> read16(self.mmu, self.pc)]

---------------------------------------------------------------------------
(* src/cpu.rs: loads, 16-bit arithmetic, 8-bit ALU                         *)

nop(self) == self

ld_r16_d16(self, reg) ==
    LET r == read_d16(self) IN write_r16(r.self, reg, r.imm)

ld_ind_d16_sp(self) ==
    LET r == read_d16(self)
    IN [r.self EXCEPT !.mmu = write16(r.self.mmu, r.imm, r.self.sp)]

ld_sp_hl(self) == [self EXCEPT !.sp = hl(self)]


\* add_hl_r16 taking the half carry out of bit 7 instead of bit 11.
add_hl_r16_half_from_bit7(self, reg) ==
    LET hl0 == hl(self)
        val == read_r16(self, reg)
        half_carry == BitAnd(hl0, 255) + BitAnd(val, 255) > 255
        r == overflowing_add16(hl0, val)
    IN set_f_c(set_f_h(set_f_n(set_hl(self, r.res), FALSE), half_carry), r.carry)

add_hl_r16(self, reg) ==
    LET hl0 == hl(self)
        val == read_r16(self, reg)
        half_carry == BitAnd(hl0, 4095) + BitAnd(val, 4095) > 4095
        r == overflowing_add16(hl0, val)
    IN set_f_c(set_f_h(set_f_n(set_hl(self, r.res), FALSE), half_carry), r.carry)


\* _add_sp taking C from the 16-bit sum instead of the low bytes.
_add_sp_carry_from_bit15(self, offset) ==
    LET val == SignExtend(offset)
        half_carry == BitAnd(self.sp, 15) + BitAnd(val, 15) > 15
        carry == self.sp + val > 65535
    IN [self |-> SetFlags(self, FALSE, FALSE, half_carry, carry),
        res |-> wrapping_add16(self.sp, val)]

\* _add_sp returns the sum and sets the flags: [self, res].
_add_sp(self, offset) ==
    LET val == SignExtend(offset)
        half_carry == BitAnd(self.sp, 15) + BitAnd(val, 15) > 15
        carry == BitAnd(self.sp, 255) + BitAnd(val, 255) > 255
    IN [self |-> SetFlags(self, FALSE, FALSE, half_carry, carry),
        res |-> wrapping_add16(self.sp, val)]

add_sp_d8(self) ==
    LET r == read_d8(self)
        q == _add_sp(r.self, r.imm)
    IN [q.self EXCEPT !.sp = q.res]

ld_hl_sp_d8(self) ==
    LET r == read_d8(self)
        q == _add_sp(r.self, r.imm)
    IN set_hl(q.self, q.res)

and_r8(self, reg) ==
    LET res == BitAnd(self.a, read_r8(self, reg))
    IN SetFlags([self EXCEPT !.a = res], res = 0, FALSE, TRUE, FALSE)

or_r8(self, reg) ==
    LET res == BitOr(self.a, read_r8(self, reg))
    IN SetFlags([self EXCEPT !.a = res], res = 0, FALSE, FALSE, FALSE)

xor_r8(self, reg) ==
    LET res == BitXor(self.a, read_r8(self, reg))
    IN SetFlags([self EXCEPT !.a = res], res = 0, FALSE, FALSE, FALSE)

cp_r8(self, reg) ==
    LET a0 == self.a
        val == read_r8(self, reg)
    IN SetFlags(self, a0 = val, TRUE, BitAnd(a0, 15) < BitAnd(val, 15), a0 < val)


\* daa testing A > 0x9f instead of A > 0x99 for the high adjustment.
daa_high_threshold(self) ==
    LET a0 == self.a
        hi == ~f_n(self) /\ (f_c(self) \/ a0 > 159)
        a1 == IF hi THEN wrapping_add8(a0, 96) ELSE a0
        s1 == IF hi THEN set_f_c(self, TRUE) ELSE self
        a2 == IF ~f_n(self)
              THEN (IF f_h(s1) \/ BitAnd(a1, 15) > 9 THEN wrapping_add8(a1, 6) ELSE a1)
              ELSE LET a3 == IF f_c(self) THEN wrapping_sub8(a0, 96) ELSE a0
                   IN IF f_h(self) THEN wrapping_sub8(a3, 6) ELSE a3
    IN set_f_h(set_f_z([s1 EXCEPT !.a = a2], a2 = 0), FALSE)

daa(self) ==
    LET a0 == self.a
        hi == ~f_n(self) /\ (f_c(self) \/ a0 > 153)
        a1 == IF hi THEN wrapping_add8(a0, 96) ELSE a0
        s1 == IF hi THEN set_f_c(self, TRUE) ELSE self
        a2 == IF ~f_n(self)
              THEN (IF f_h(s1) \/ BitAnd(a1, 15) > 9 THEN wrapping_add8(a1, 6) ELSE a1)
              ELSE LET a3 == IF f_c(self) THEN wrapping_sub8(a0, 96) ELSE a0
                   IN IF f_h(self) THEN wrapping_sub8(a3, 6) ELSE a3
    IN set_f_h(set_f_z([s1 EXCEPT !.a = a2], a2 = 0), FALSE)

cpl(self) == set_f_h(set_f_n([self EXCEPT !.a = Not8(self.a)], TRUE), TRUE)

ccf(self) ==
    LET s == set_f_h(set_f_n(self, FALSE), FALSE)
    IN set_f_c(s, ~f_c(s))

scf(self) == set_f_c(set_f_h(set_f_n(self, FALSE), FALSE), TRUE)


\* _add taking the half carry from the result's low nibble being 0.
_add_half_from_result(self, val) ==
    LET r == overflowing_add8(self.a, val)
        half_carry == BitAnd(r.res, 15) = 0
    IN SetFlags([self EXCEPT !.a = r.res], r.res = 0, FALSE, half_carry, r.carry)

_add(self, val) ==
    LET half_carry == BitAnd(self.a, 15) + BitAnd(val, 15) > 15
        r == overflowing_add8(self.a, val)
    IN SetFlags([self EXCEPT !.a = r.res], r.res = 0, FALSE, half_carry, r.carry)


\* _sub with the borrow test a <= b instead of a < b.
_sub_borrow_on_equal(self, val) ==
    LET half_carry == BitAnd(self.a, 15) < BitAnd(val, 15)
        r == overflowing_sub8(self.a, val)
    IN SetFlags([self EXCEPT !.a = r.res], r.res = 0, TRUE, half_carry, self.a <= val)

_sub(self, val) ==
    LET half_carry == BitAnd(self.a, 15) < BitAnd(val, 15)
        r == overflowing_sub8(self.a, val)
    IN SetFlags([self EXCEPT !.a = r.res], r.res = 0, TRUE, half_carry, r.carry)


\* _adc leaving the incoming carry out of the half carry.
_adc_half_without_carry(self, val) ==
    LET cin == IF f_c(self) THEN 1 ELSE 0
        res == wrapping_add8(wrapping_add8(self.a, val), cin)
        half_carry == BitAnd(self.a, 15) + BitAnd(val, 15) > 15
        carry == self.a + val + cin > 255
    IN SetFlags([self EXCEPT !.a = res], res = 0, FALSE, half_carry, carry)

_adc(self, val) ==
    LET cin == IF f_c(self) THEN 1 ELSE 0
        res == wrapping_add8(wrapping_add8(self.a, val), cin)
        half_carry == BitAnd(self.a, 15) + BitAnd(val, 15) + cin > 15
        carry == self.a + val + cin > 255
    IN SetFlags([self EXCEPT !.a = res], res = 0, FALSE, half_carry, carry)

_sbc(self, val) ==
    LET cin == IF f_c(self) THEN 1 ELSE 0
        res == wrapping_sub8(wrapping_sub8(self.a, val), cin)
        half_carry == BitAnd(self.a, 15) < BitAnd(val, 15) + cin
        carry == self.a < val + cin
    IN SetFlags([self EXCEPT !.a = res], res = 0, TRUE, half_carry, carry)

add_r8(self, reg) == _add(self, read_r8(self, reg))

adc_r8(self, reg) == _adc(self, read_r8(self, reg))

sub_r8(self, reg) == _sub(self, read_r8(self, reg))

sbc_r8(self, reg) == _sbc(self, read_r8(self, reg))

add_d8(self) == LET r == read_d8(self) IN _add(r.self, r.imm)

sub_d8(self) == LET r == read_d8(self) IN _sub(r.self, r.imm)

adc_d8(self) == LET r == read_d8(self) IN _adc(r.self, r.imm)

sbc_d8(self) == LET r == read_d8(self) IN _sbc(r.self, r.imm)

and_d8(self) ==
    LET r == read_d8(self)
        res == BitAnd(r.self.a, r.imm)
    IN SetFlags([r.self EXCEPT !.a = res], res = 0, FALSE, TRUE, FALSE)

or_d8(self) ==
    LET r == read_d8(self)
        res == BitOr(r.self.a, r.imm)
    IN SetFlags([r.self EXCEPT !.a = res], res = 0, FALSE, FALSE, FALSE)

xor_d8(self) ==
    LET r == read_d8(self)
        res == BitXor(r.self.a, r.imm)
    IN SetFlags([r.self EXCEPT !.a = res], res = 0, FALSE, FALSE, FALSE)


\* cp_d8 storing the difference in A as sub_d8 does.
cp_d8_stores_result(self) == LET r == read_d8(self) IN _sub(r.self, r.imm)

cp_d8(self) ==
    LET r == read_d8(self)
        a0 == r.self.a
    IN SetFlags(r.self, a0 = r.imm, TRUE, BitAnd(a0, 15) < BitAnd(r.imm, 15), a0 < r.imm)

ldi_hl_a(self) ==
    LET s == [self EXCEPT !.mmu = write(self.mmu, hl(self), self.a)]
    IN set_hl(s, wrapping_add16(hl(s), 1))

ldd_hl_a(self) ==
    LET s == [self EXCEPT !.mmu = write(self.mmu, hl(self), self.a)]
    IN set_hl(s, wrapping_sub16(hl(s), 1))

ldi_a_hl(self) ==
    LET s == [self EXCEPT !.a = read(self.mmu, hl(self))]
    IN set_hl(s, wrapping_add16(hl(s), 1))

ldd_a_hl(self) ==
    LET s == [self EXCEPT !.a = read(self.mmu, hl(self))]
    IN set_hl(s, wrapping_sub16(hl(s), 1))

ld_ind_bc_a(self) == [self EXCEPT !.mmu = write(self.mmu, bc(self), self.a)]

ld_ind_de_a(self) == [self EXCEPT !.mmu = write(self.mmu, de(self), self.a)]

ld_a_ind_bc(self) == [self EXCEPT !.a = read(self.mmu, bc(self))]

ld_a_ind_de(self) == [self EXCEPT !.a = read(self.mmu, de(self))]

---------------------------------------------------------------------------
(* src/cpu.rs: bit operations, rotates and shifts                          *)

bit(self, pos, reg) ==
    LET z == BitAnd(Shr(read_r8(self, reg), pos), 1) = 0
    IN set_f_h(set_f_n(set_f_z(self, z), FALSE), TRUE)

set(self, pos, reg) ==
    write_r8(self, reg, BitOr(read_r8(self, reg), Shl8(1, pos)))

res(self, pos, reg) ==
    write_r8(self, reg, BitAnd(read_r8(self, reg), Not8(Shl8(1, pos))))

_rl(self, reg) ==
    LET orig == read_r8(self, reg)
        r == BitOr(Shl8(orig, 1), IF f_c(self) THEN 1 ELSE 0)
    IN SetFlags(write_r8(self, reg, r), r = 0, FALSE, FALSE, BitAnd(Shr(orig, 7), 1) = 1)

rl(self, reg) == _rl(self, reg)

_rlc(self, reg) ==
    LET orig == read_r8(self, reg)
        r == rotate_left8(orig)
    IN SetFlags(write_r8(self, reg, r), r = 0, FALSE, FALSE, BitAnd(Shr(orig, 7), 1) = 1)

rlc(self, reg) == _rlc(self, reg)

_rr(self, reg) ==
    LET orig == read_r8(self, reg)
        r == BitOr(Shr(orig, 1), Shl8(IF f_c(self) THEN 1 ELSE 0, 7))
    IN SetFlags(write_r8(self, reg, r), r = 0, FALSE, FALSE, BitAnd(orig, 1) = 1)

rr(self, reg) == _rr(self, reg)

_rrc(self, reg) ==
    LET orig == read_r8(self, reg)
        r == rotate_right8(orig)
    IN SetFlags(write_r8(self, reg, r), r = 0, FALSE, FALSE, BitAnd(orig, 1) = 1)

rrc(self, reg) == _rrc(self, reg)

sla(self, reg) ==
    LET orig == read_r8(self, reg)
        r == Shl8(orig, 1)
    IN SetFlags(write_r8(self, reg, r), r = 0, FALSE, FALSE, BitAnd(orig, 128) > 0)

sra(self, reg) ==
    LET orig == read_r8(self, reg)
        r == BitOr(Shr(orig, 1), BitAnd(orig, 128))
    IN SetFlags(write_r8(self, reg, r), r = 0, FALSE, FALSE, BitAnd(orig, 1) > 0)

swap(self, reg) ==
    LET orig == read_r8(self, reg)
        r == BitOr(Shl8(BitAnd(orig, 15), 4), Shr(BitAnd(orig, 240), 4))
    IN SetFlags(write_r8(self, reg, r), r = 0, FALSE, FALSE, FALSE)

srl(self, reg) ==
    LET orig == read_r8(self, reg)
        r == Shr(orig, 1)
    IN SetFlags(write_r8(self, reg, r), r = 0, FALSE, FALSE, BitAnd(orig, 1) = 1)

rlca(self) == set_f_z(_rlc(self, 7), FALSE)

rla(self) == set_f_z(_rl(self, 7), FALSE)

rrca(self) == set_f_z(_rrc(self, 7), FALSE)

rra(self) == set_f_z(_rr(self, 7), FALSE)

---------------------------------------------------------------------------
(* src/cpu.rs: jumps, calls, returns, stack                                *)

_jp(self, addr) == [self EXCEPT !.pc = addr]


\* jp_nz_d8 fetching its operand only when the jump is taken.
jp_nz_d8_lazy_operand(self) ==
    IF ~f_z(self) THEN (LET r == read_d16(self) IN _jp(r.self, r.imm)) ELSE self

jp_nz_d8(self) ==
    LET r == read_d16(self) IN IF ~f_z(r.self) THEN _jp(r.self, r.imm) ELSE r.self

jp_nc_d8(self) ==
    LET r == read_d16(self) IN IF ~f_c(r.self) THEN _jp(r.self, r.imm) ELSE r.self

jp_z_d8(self) ==
    LET r == read_d16(self) IN IF f_z(r.self) THEN _jp(r.self, r.imm) ELSE r.self

jp_c_d8(self) ==
    LET r == read_d16(self) IN IF f_c(r.self) THEN _jp(r.self, r.imm) ELSE r.self

jp_d16(self) == LET r == read_d16(self) IN [r.self EXCEPT !.pc = r.imm]

jp_hl(self) == [self EXCEPT !.pc = hl(self)]

_jr(self, offset) == [self EXCEPT !.pc = wrapping_add16(self.pc, SignExtend(offset))]

jr_nz_d8(self) ==
    LET r == read_d8(self) IN IF ~f_z(r.self) THEN _jr(r.self, r.imm) ELSE r.self

jr_nc_d8(self) ==
    LET r == read_d8(self) IN IF ~f_c(r.self) THEN _jr(r.self, r.imm) ELSE r.self

jr_z_d8(self) ==
    LET r == read_d8(self) IN IF f_z(r.self) THEN _jr(r.self, r.imm) ELSE r.self

jr_c_d8(self) ==
    LET r == read_d8(self) IN IF f_c(r.self) THEN _jr(r.self, r.imm) ELSE r.self

jr_d8(self) == LET r == read_d8(self) IN _jr(r.self, r.imm)

ld_io_d8_a(self) ==
    LET r == read_d8(self)
    IN [r.self EXCEPT !.mmu = write(r.self.mmu, BitOr(65280, r.imm), r.self.a)]

ld_a_io_d8(self) ==
    LET r == read_d8(self)
    IN [r.self EXCEPT !.a = read(r.self.mmu, BitOr(65280, r.imm))]

ld_io_c_a(self) == [self EXCEPT !.mmu = write(self.mmu, BitOr(65280, self.c), self.a)]

ld_a_io_c(self) == [self EXCEPT !.a = read(self.mmu, BitOr(65280, self.c))]


\* ld_r8_d8 loading the immediate without moving PC past it.
ld_r8_d8_no_advance(self, reg) == write_r8(self, reg, read(self.mmu, self.pc))

ld_r8_d8(self, reg) == LET r == read_d8(self) IN write_r8(r.self, reg, r.imm)


\* inc_r8 setting C on the wrap from 0xff as an addition would.
inc_r8_sets_carry(self, reg) ==
    LET orig == read_r8(self, reg)
        r == wrapping_add8(orig, 1)
    IN SetFlags(write_r8(self, reg, r), r = 0, FALSE, BitAnd(orig, 15) = 15, orig = 255)

inc_r8(self, reg) ==
    LET orig == read_r8(self, reg)
        r == wrapping_add8(orig, 1)
    IN set_f_n(set_f_h(set_f_z(write_r8(self, reg, r), r = 0), BitAnd(orig, 15) = 15), FALSE)

dec_r8(self, reg) ==
    LET orig == read_r8(self, reg)
        r == wrapping_sub8(orig, 1)
    IN set_f_n(set_f_h(set_f_z(write_r8(self, reg, r), r = 0), BitAnd(orig, 15) = 0), TRUE)

ld_r8_r8(self, reg1, reg2) == write_r8(self, reg1, read_r8(self, reg2))


\* _call storing the return address at the old SP, decrementing afterwards.
_call_post_decrement(self, addr) ==
    [self EXCEPT !.sp = wrapping_sub16(self.sp, 2),
                 !.mmu = write16(self.mmu, self.sp, self.pc), !.pc = addr]

_call(self, addr) ==
    LET sp1 == wrapping_sub16(self.sp, 2)
    IN [self EXCEPT !.sp = sp1, !.mmu = write16(self.mmu, sp1, self.pc), !.pc = addr]

call_d16(self) == LET r == read_d16(self) IN _call(r.self, r.imm)

call_nz_d16(self) ==
    LET r == read_d16(self) IN IF ~f_z(r.self) THEN _call(r.self, r.imm) ELSE r.self

call_nc_d16(self) ==
    LET r == read_d16(self) IN IF ~f_c(r.self) THEN _call(r.self, r.imm) ELSE r.self

call_z_d16(self) ==
    LET r == read_d16(self) IN IF f_z(r.self) THEN _call(r.self, r.imm) ELSE r.self

call_c_d16(self) ==
    LET r == read_d16(self) IN IF f_c(r.self) THEN _call(r.self, r.imm) ELSE r.self

\* rst jumping to the vector without pushing the return address.
rst_without_push(self, addr) == [self EXCEPT !.pc = addr]

rst(self, addr) == _call(self, addr)


\* _ret incrementing SP before it reads the return address.
_ret_pre_increment(self) ==
    LET sp1 == wrapping_add16(self.sp, 2)
    IN [self EXCEPT !.pc = read16(self.mmu, sp1), !.sp = sp1]

_ret(self) ==
    [self EXCEPT !.pc = read16(self.mmu, self.sp), !.sp = wrapping_add16(self.sp, 2)]

ret(self) == _ret(self)

ret_nz(self) == IF ~f_z(self) THEN _ret(self) ELSE self

ret_nc(self) == IF ~f_c(self) THEN _ret(self) ELSE self

ret_z(self) == IF f_z(self) THEN _ret(self) ELSE self

ret_c(self) == IF f_c(self) THEN _ret(self) ELSE self


\* push_bc storing at the old SP before decrementing it.
push_bc_post_decrement(self) ==
    [self EXCEPT !.sp = wrapping_sub16(self.sp, 2),
                 !.mmu = write16(self.mmu, self.sp, bc(self))]

push_bc(self) ==
    LET sp1 == wrapping_sub16(self.sp, 2)
    IN [self EXCEPT !.sp = sp1, !.mmu = write16(self.mmu, sp1, bc(self))]

push_de(self) ==
    LET sp1 == wrapping_sub16(self.sp, 2)
    IN [self EXCEPT !.sp = sp1, !.mmu = write16(self.mmu, sp1, de(self))]

push_hl(self) ==
    LET sp1 == wrapping_sub16(self.sp, 2)
    IN [self EXCEPT !.sp = sp1, !.mmu = write16(self.mmu, sp1, hl(self))]

push_af(self) ==
    LET sp1 == wrapping_sub16(self.sp, 2)
    IN [self EXCEPT !.sp = sp1, !.mmu = write16(self.mmu, sp1, af(self))]

pop_bc(self) ==
    LET s == set_bc(self, read16(self.mmu, self.sp))
    IN [s EXCEPT !.sp = wrapping_add16(s.sp, 2)]

pop_de(self) ==
    LET s == set_de(self, read16(self.mmu, self.sp))
    IN [s EXCEPT !.sp = wrapping_add16(s.sp, 2)]

pop_hl(self) ==
    LET s == set_hl(self, read16(self.mmu, self.sp))
    IN [s EXCEPT !.sp = wrapping_add16(s.sp, 2)]


\* pop_af without the mask on the popped word.
pop_af_unmasked(self) ==
    LET s == set_af(self, read16(self.mmu, self.sp))
    IN [s EXCEPT !.sp = wrapping_add16(s.sp, 2)]

pop_af(self) ==
    LET s == set_af(self, BitAnd(read16(self.mmu, self.sp), 65520))
    IN [s EXCEPT !.sp = wrapping_add16(s.sp, 2)]

inc_r16(self, reg) == write_r16(self, reg, wrapping_add16(read_r16(self, reg), 1))

dec_r16(self, reg) == write_r16(self, reg, wrapping_sub16(read_r16(self, reg), 1))

ld_ind_d16_a(self) ==
    LET r == read_d16(self)
    IN [r.self EXCEPT !.mmu = write(r.self.mmu, r.imm, r.self.a)]

ld_a_ind_d16(self) ==
    LET r == read_d16(self)
    IN [r.self EXCEPT !.a = read(r.self.mmu, r.imm)]

di(self) == self

ei(self) == self

reti(self) == _ret(self)

---------------------------------------------------------------------------
(* src/cpu.rs: the dispatcher                                              *)

\* prefix taking the bit position from bits 0-2 and the operand index from
\* bits 3-5 of the second byte.
prefix_fields_swapped(self) ==
    LET r == read_d8(self)
        s == r.self
        opcode == r.imm
        pos == BitAnd(opcode, 7)
        reg == BitAnd(Shr(opcode, 3), 7)
    IN CASE opcode <= 7 -> rlc(s, BitAnd(opcode, 7))
         [] opcode >= 8 /\ opcode <= 15 -> rrc(s, BitAnd(opcode, 7))
         [] opcode >= 16 /\ opcode <= 23 -> rl(s, BitAnd(opcode, 7))
         [] opcode >= 24 /\ opcode <= 31 -> rr(s, BitAnd(opcode, 7))
         [] opcode >= 32 /\ opcode <= 39 -> sla(s, BitAnd(opcode, 7))
         [] opcode >= 40 /\ opcode <= 47 -> sra(s, BitAnd(opcode, 7))
         [] opcode >= 48 /\ opcode <= 55 -> swap(s, BitAnd(opcode, 7))
         [] opcode >= 56 /\ opcode <= 63 -> srl(s, BitAnd(opcode, 7))
         [] opcode >= 64 /\ opcode <= 127 -> bit(s, pos, reg)
         [] opcode >= 128 /\ opcode <= 191 -> res(s, pos, reg)
         [] OTHER -> set(s, pos, reg)

prefix(self) ==
    LET r == read_d8(self)
        s == r.self
        opcode == r.imm
        pos == BitAnd(Shr(opcode, 3), 7)
        reg == BitAnd(opcode, 7)
    IN CASE opcode >= 0 /\ opcode <= 7 -> rlc(s, reg)
         [] opcode >= 8 /\ opcode <= 15 -> rrc(s, reg)
         [] opcode >= 16 /\ opcode <= 23 -> rl(s, reg)
         [] opcode >= 24 /\ opcode <= 31 -> rr(s, reg)
         [] opcode >= 32 /\ opcode <= 39 -> sla(s, reg)
         [] opcode >= 40 /\ opcode <= 47 -> sra(s, reg)
         [] opcode >= 48 /\ opcode <= 55 -> swap(s, reg)
         [] opcode >= 56 /\ opcode <= 63 -> srl(s, reg)
         [] opcode >= 64 /\ opcode <= 127 -> bit(s, pos, reg)
         [] opcode >= 128 /\ opcode <= 191 -> res(s, pos, reg)
         [] opcode >= 192 /\ opcode <= 255 -> set(s, pos, reg)
         [] OTHER -> Panic(s, <<"Unimplemented opcode 0xcb", opcode>>)

\* The opcode patterns of step()'s match arms, in source order (the wildcard
\* arm left out).
StepArms ==
    << {0}, {1}, {17}, {33}, {49}, {8}, {249}, {2}, {18}, {10}, {26}, {197},
       {213}, {229}, {245}, {193}, {209}, {225}, {241}, {194}, {210}, {202},
       {218}, {195}, {233}, {32}, {48}, {40}, {56}, {24}, {7}, {23}, {15},
       {31}, {9}, {25}, {41}, {57}, {232}, {248}, 128..135, 136..143,
       144..151, 152..159, 160..167, 176..183, 168..175, 184..191, {39},
       {47}, {55}, {63}, {198}, {214}, {230}, {246}, {206}, {222}, {238},
       {254}, {34}, {50}, {42}, {58}, {224}, {240}, {226}, {242},
       {6, 14, 22, 30, 38, 46, 54, 62}, {4, 12, 20, 28, 36, 44, 52, 60},
       {5, 13, 21, 29, 37, 45, 53, 61}, 64..117 \cup 119..127, {234}, {250},
       {3}, {19}, {35}, {51}, {11}, {27}, {43}, {59}, {205}, {196}, {212},
       {204}, {220}, {201}, {192}, {208}, {200}, {216}, {217}, {199}, {207},
       {215}, {223}, {231}, {239}, {247}, {255}, {243}, {251}, {203} >>

step(self) ==
    LET r == read_d8(self)
        s == r.self
        opcode == r.imm
        reg == BitAnd(opcode, 7)
        reg2 == BitAnd(Shr(opcode, 3), 7)
    IN CASE opcode = 0 -> nop(s)
         [] opcode = 1 -> ld_r16_d16(s, 0)
         [] opcode = 17 -> ld_r16_d16(s, 1)
         [] opcode = 33 -> ld_r16_d16(s, 2)
         [] opcode = 49 -> ld_r16_d16(s, 3)
         [] opcode = 8 -> ld_ind_d16_sp(s)
         [] opcode = 249 -> ld_sp_hl(s)
         [] opcode = 2 -> ld_ind_bc_a(s)
         [] opcode = 18 -> ld_ind_de_a(s)
         [] opcode = 10 -> ld_a_ind_bc(s)
         [] opcode = 26 -> ld_a_ind_de(s)
         [] opcode = 197 -> push_bc(s)
         [] opcode = 213 -> push_de(s)
         [] opcode = 229 -> push_hl(s)
         [] opcode = 245 -> push_af(s)
         [] opcode = 193 -> pop_bc(s)
         [] opcode = 209 -> pop_de(s)
         [] opcode = 225 -> pop_hl(s)
         [] opcode = 241 -> pop_af(s)
         [] opcode = 194 -> jp_nz_d8(s)
         [] opcode = 210 -> jp_nc_d8(s)
         [] opcode = 202 -> jp_z_d8(s)
         [] opcode = 218 -> jp_c_d8(s)
         [] opcode = 195 -> jp_d16(s)
         [] opcode = 233 -> jp_hl(s)
         [] opcode = 32 -> jr_nz_d8(s)
         [] opcode = 48 -> jr_nc_d8(s)
         [] opcode = 40 -> jr_z_d8(s)
         [] opcode = 56 -> jr_c_d8(s)
         [] opcode = 24 -> jr_d8(s)
         [] opcode = 7 -> rlca(s)
         [] opcode = 23 -> rla(s)
         [] opcode = 15 -> rrca(s)
         [] opcode = 31 -> rra(s)
         [] opcode = 9 -> add_hl_r16(s, 0)
         [] opcode = 25 -> add_hl_r16(s, 1)
         [] opcode = 41 -> add_hl_r16(s, 2)
         [] opcode = 57 -> add_hl_r16(s, 3)
         [] opcode = 232 -> add_sp_d8(s)
         [] opcode = 248 -> ld_hl_sp_d8(s)
         [] opcode >= 128 /\ opcode <= 135 -> add_r8(s, reg)
         [] opcode >= 136 /\ opcode <= 143 -> adc_r8(s, reg)
         [] opcode >= 144 /\ opcode <= 151 -> sub_r8(s, reg)
         [] opcode >= 152 /\ opcode <= 159 -> sbc_r8(s, reg)
         [] opcode >= 160 /\ opcode <= 167 -> and_r8(s, reg)
         [] opcode >= 176 /\ opcode <= 183 -> or_r8(s, reg)
         [] opcode >= 168 /\ opcode <= 175 -> xor_r8(s, reg)
         [] opcode >= 184 /\ opcode <= 191 -> cp_r8(s, reg)
         [] opcode = 39 -> daa(s)
         [] opcode = 47 -> cpl(s)
         [] opcode = 55 -> scf(s)
         [] opcode = 63 -> ccf(s)
         [] opcode = 198 -> add_d8(s)
         [] opcode = 214 -> sub_d8(s)
         [] opcode = 230 -> and_d8(s)
         [] opcode = 246 -> or_d8(s)
         [] opcode = 206 -> adc_d8(s)
         [] opcode = 222 -> sbc_d8(s)
         [] opcode = 238 -> xor_d8(s)
         [] opcode = 254 -> cp_d8(s)
         [] opcode = 34 -> ldi_hl_a(s)
         [] opcode = 50 -> ldd_hl_a(s)
         [] opcode = 42 -> ldi_a_hl(s)
         [] opcode = 58 -> ldd_a_hl(s)
         [] opcode = 224 -> ld_io_d8_a(s)
         [] opcode = 240 -> ld_a_io_d8(s)
         [] opcode = 226 -> ld_io_c_a(s)
         [] opcode = 242 -> ld_a_io_c(s)
         [] opcode \in {6, 14, 22, 30, 38, 46, 54, 62} -> ld_r8_d8(s, reg2)
         [] opcode \in {4, 12, 20, 28, 36, 44, 52, 60} -> inc_r8(s, reg2)
         [] opcode \in {5, 13, 21, 29, 37, 45, 53, 61} -> dec_r8(s, reg2)
         [] (opcode >= 64 /\ opcode <= 117) \/ (opcode >= 119 /\ opcode <= 127) ->
                ld_r8_r8(s, reg2, reg)
         [] opcode = 234 -> ld_ind_d16_a(s)
         [] opcode = 250 -> ld_a_ind_d16(s)
         [] opcode = 3 -> inc_r16(s, 0)
         [] opcode = 19 -> inc_r16(s, 1)
         [] opcode = 35 -> inc_r16(s, 2)
         [] opcode = 51 -> inc_r16(s, 3)
         [] opcode = 11 -> dec_r16(s, 0)
         [] opcode = 27 -> dec_r16(s, 1)
         [] opcode = 43 -> dec_r16(s, 2)
         [] opcode = 59 -> dec_r16(s, 3)
         [] opcode = 205 -> call_d16(s)
         [] opcode = 196 -> call_nz_d16(s)
         [] opcode = 212 -> call_nc_d16(s)
         [] opcode = 204 -> call_z_d16(s)
         [] opcode = 220 -> call_c_d16(s)
         [] opcode = 201 -> ret(s)
         [] opcode = 192 -> ret_nz(s)
         [] opcode = 208 -> ret_nc(s)
         [] opcode = 200 -> ret_z(s)
         [] opcode = 216 -> ret_c(s)
         [] opcode = 217 -> reti(s)
         [] opcode = 199 -> rst(s, 0)
         [] opcode = 207 -> rst(s, 8)
         [] opcode = 215 -> rst(s, 16)
         [] opcode = 223 -> rst(s, 24)
         [] opcode = 231 -> rst(s, 32)
         [] opcode = 239 -> rst(s, 40)
         [] opcode = 247 -> rst(s, 48)
         [] opcode = 255 -> rst(s, 56)
         [] opcode = 243 -> di(s)
         [] opcode = 251 -> ei(s)
         [] opcode = 203 -> prefix(s)
         [] OTHER -> Panic(s, <<"Unimplemented opcode", opcode>>)

---------------------------------------------------------------------------
(* Operations: the host's calls on the MMU it owns, CPU::new, CPU::step    *)

\* mmu.write(addr, val), called by the host before the MMU is moved.
MmuWrite(addr, val) ==
    /\ mmu # << >>
    /\ mmu' = <<write(mmu[1], addr, val)>>
    /\ call' = Append(call, [name |-> "write", addr |-> addr, val |-> val,
                             before |-> mmu[1]])
    /\ UNCHANGED <<cpu, hist>>

\* mmu.write16(addr, val), called by the host before the MMU is moved.
MmuWrite16(addr, val) ==
    /\ mmu # << >>
    /\ mmu' = <<write16(mmu[1], addr, val)>>
    /\ call' = Append(call, [name |-> "write16", addr |-> addr, val |-> val,
                             before |-> mmu[1]])
    /\ UNCHANGED <<cpu, hist>>

\* CPU::new(mmu): the MMU is moved into the CPU.
NewCPU ==
    /\ mmu # << >>
    /\ cpu = << >>
    /\ cpu' = <<CPU_new(mmu[1])>>
    /\ mmu' = << >>
    /\ UNCHANGED <<hist, call>>


\* step() called again on a CPU whose last step panicked.
Step_after_panic ==
    /\ cpu # << >>
    /\ cpu' = <<step([cpu[1] EXCEPT !.panic = << >>])>>
    /\ hist' = Append(hist, cpu[1])
    /\ UNCHANGED <<mmu, call>>

\* cpu.step(); after a panic the process is gone and nothing steps.
Step ==
    /\ cpu # << >>
    /\ cpu[1].panic = << >>
    /\ cpu' = <<step(cpu[1])>>
    /\ hist' = Append(hist, cpu[1])
    /\ UNCHANGED <<mmu, call>>

---------------------------------------------------------------------------
(* Bounds and inputs                                                       *)

\* Host calls on the MMU (SpecMmu).
MaxCalls == 2

\* step() calls after construction (Spec).
MaxSteps == 4

\* step() calls from a running CPU (SpecCpu).
MaxDepth == 2

\* A memory manager holding `bytes` from `addr` on, the boot image included
\* (unbacked addresses hold nothing).
RECURSIVE Load(_, _, _)
Load(m, addr, bytes) ==
    IF bytes = << >> THEN m
    ELSE Load(IF addr <= 255
              THEN [m EXCEPT !.boot_rom = VecSet(m.boot_rom, addr, Head(bytes))]
              ELSE write(m, addr, Head(bytes)),
              wrapping_add16(addr, 1), Tail(bytes))

\* A boot file of 0x100 bytes: `fill` everywhere but `bytes` from 0x38 on.
BootFile(fill, bytes) ==
    Load(MMU_new([len |-> BootLen,
                  at |-> [k \in (IF fill = 0 THEN {} ELSE 0..255) |-> fill],
                  fault |-> FALSE]),
         56, bytes).boot_rom

BootImages ==
    { BootFile(0, << >>),
      BootFile(0, <<62, 5, 198, 3, 0>>),
      BootFile(0, <<241, 245, 241>>),
      BootFile(255, <<49, 0, 192, 205, 0, 1>>),
      BootFile(255, <<211>>),
      BootFile(0, <<33, 56, 0, 54, 0>>),
      BootFile(255, << >>) }

\* The host stores a program image front to back: calls at ascending addresses.
HostWrites ==
    { <<0, 66>>, <<256, 62>>, <<257, 5>>, <<258, 198>>, <<259, 3>>, <<260, 0>>,
      <<49152, 62>> }

Ascending(addr) == IF call = << >> THEN TRUE ELSE call[Len(call)].addr < addr

Addrs ==
    { 0, 255, 256, 32768, 36864, 49151, 49152, 57342, 57343, 57344,
      65280, 65407, 65408, 65533, 65534, 65535 }

---------------------------------------------------------------------------
(* Specifications                                                          *)

\* The process from MMU::new on.
Init ==
    /\ \E image \in BootImages : mmu = <<MMU_new(image)>>
    /\ cpu = << >>
    /\ hist = << >>
    /\ call = << >>

Next ==
    \/ \E w \in HostWrites : Ascending(w[1]) /\ MmuWrite(w[1], w[2])
    \/ \E w \in { <<255, 4660>>, <<65532, 4660>>, <<65534, 4660>> } : Ascending(w[1]) /\ MmuWrite16(w[1], w[2])
    \/ NewCPU
    \/ Len(hist) < MaxSteps /\ Step

Spec == Init /\ [][Next]_vars

\* The host's calls on a constructed MMU, over an all-zero boot file and one
\* holding 0x3c everywhere.
InitMmu ==
    /\ \E fill \in {0, 60} : mmu = <<MMU_new(BootFile(fill, << >>))>>
    /\ cpu = << >>
    /\ hist = << >>
    /\ call = << >>

NextMmu ==
    \/ \E addr \in Addrs, val \in {0, 66, 255} :
            Len(call) < MaxCalls /\ MmuWrite(addr, val)
    \/ \E addr \in Addrs, val \in {0, 4660, 65535} :
            Len(call) < MaxCalls /\ MmuWrite16(addr, val)

SpecMmu == InitMmu /\ [][NextMmu]_vars

---------------------------------------------------------------------------
(* Running CPUs: states a program reaches (any register values with the    *)
(* low nibble of F clear, any boot image, any RAM contents), about to run  *)
(* any primary opcode with its operand bytes, any 0xcb-prefixed opcode, or *)
(* PUSH rr directly followed by POP rr; also CPUs freshly constructed, CPUs *)
(* with an opcode at 0xfffd and its operand in the last byte of high RAM,  *)
(* and CPUs with PC = 0xffff.                                              *)

Running(m, pc, sp, a, f, b, c, d, e, h, l) ==
    [mmu |-> m, pc |-> pc, sp |-> sp, a |-> a, f |-> f, b |-> b, c |-> c,
     d |-> d, e |-> e, h |-> h, l |-> l, panic |-> << >>]

\* Boot image of INC A, data on the stack in RAM (0xc100..) and HRAM (0xfffc..).
Mem0 ==
    Load(Load(MMU_new(BootFile(60, << >>)), 49408, <<52, 18, 255, 90>>),
         65532, <<205, 171, 23>>)

Flags == { 0, 128, 16, 240 }

\* [sp, f, hl]: every stack pointer and every HL with every flag setting.
RegPresets ==
    { [sp |-> sp, f |-> f, hl |-> 49408] : sp \in {0, 1, 49410, 57344, 65534, 65535},
        f \in Flags }
    \cup { [sp |-> 49410, f |-> f, hl |-> x] : x \in {56, 32768, 65535}, f \in Flags }

CodePCs == { 49152, 65534 }

\* A running CPU about to execute `bytes` stored at pc.
Program(bytes, pc, r) ==
    Running(Load(Mem0, pc, bytes), pc, r.sp, 154, r.f, 18, 52, 192, 255,
            r.hl \div 256, r.hl % 256)

InitCpu ==
    /\ mmu = << >>
    /\ hist = << >>
    /\ call = << >>
    /\ \/ \E op \in 0..255, pc \in CodePCs, x \in {<<0, 192>>, <<254, 255>>},
             r \in RegPresets :
            cpu = <<Program(<<op, x[1], x[2]>>, pc, r)>>
       \/ \E op \in 0..255, pc \in CodePCs, r \in RegPresets :
            cpu = <<Program(<<203, op>>, pc, r)>>
       \/ \E op \in {197, 213, 229, 245}, pc \in CodePCs \cup {56}, r \in RegPresets :
            cpu = <<Program(<<op, op - 4>>, pc, r)>>
       \/ \E image \in BootImages :
            cpu = <<CPU_new(MMU_new(image))>>
       \/ \E op \in 0..255, r \in RegPresets :
            cpu = <<Program(<<op, 127>>, 65533, r)>>
       \/ \E r \in RegPresets :
            cpu = <<Program(<< >>, 65535, r)>>

NextCpu == Len(hist) < MaxDepth /\ Step

SpecCpu == InitCpu /\ [][NextCpu]_vars

\* ALU inputs: every A with every immediate operand and flags all clear or all
\* set; a sample of A and operand values through each operand index; every A
\* with every flag setting for DAA.  MaxAluSteps bounds the step() calls.
MaxAluSteps == 1

ByteSample == { 0, 1, 8, 15, 16, 127, 128, 153, 154, 240, 255 }

AluInput(bytes, a, f) ==
    Running(Load(Mem0, 49152, bytes), 49152, 65534, a, f, 0, 0, 0, 0, 193, 0)

InitAlu ==
    /\ mmu = << >>
    /\ hist = << >>
    /\ call = << >>
    /\ \/ \E op \in {198, 206, 214, 222}, a \in 0..255, v \in 0..255, f \in {0, 240} :
            cpu = <<AluInput(<<op, v>>, a, f)>>
       \/ \E op \in {128, 136, 144, 152}, idx \in 0..7, a \in ByteSample, v \in ByteSample,
             f \in {0, 240} :
            cpu = <<write_r8(AluInput(<<op + idx>>, a, f), idx, v)>>
       \/ \E a \in 0..255, k \in 0..15 :
            cpu = <<AluInput(<<39>>, a, 16 * k)>>

NextAlu == Len(hist) < MaxAluSteps /\ Step

SpecAlu == InitAlu /\ [][NextAlu]_vars

\* Compare, increment/decrement and 16-bit addition inputs: CP d8 with every A
\* and operand, CP r through each operand index; INC/DEC of every value
\* through each operand index with C clear and set, and of memory at HL in the
\* boot image and in unmapped space; ADD HL,rr over boundary words; ADD SP,d8
\* and LD HL,SP+d8 with every low byte of SP and every offset.
WordSample == { 0, 1, 255, 256, 2048, 4095, 4096, 32767, 32768, 61440, 63488, 65535 }

InitArith ==
    /\ mmu = << >>
    /\ hist = << >>
    /\ call = << >>
    /\ \/ \E a \in 0..255, v \in 0..255, f \in {0, 240} :
            cpu = <<AluInput(<<254, v>>, a, f)>>
       \/ \E idx \in 0..7, a \in ByteSample, v \in ByteSample, f \in {0, 240} :
            cpu = <<write_r8(AluInput(<<184 + idx>>, a, f), idx, v)>>
       \/ \E op \in {4, 5}, idx \in 0..7, v \in 0..255, f \in {0, 16, 224, 240} :
            cpu = <<write_r8(AluInput(<<op + 8 * idx>>, 0, f), idx, v)>>
       \/ \E op \in {52, 53}, r \in RegPresets :
            cpu = <<Program(<<op>>, 49152, r)>>
       \/ \E op \in {9, 25, 41, 57}, x \in WordSample, y \in WordSample,
             f \in {0, 128, 112, 240} :
            cpu = <<Running(Load(Mem0, 49152, <<op>>), 49152, y, 0, f,
                            y \div 256, y % 256, y \div 256, y % 256,
                            x \div 256, x % 256)>>
       \/ \E op \in {232, 248}, hi \in {0, 255}, lo \in 0..255, v \in 0..255 :
            cpu = <<Running(Load(Mem0, 49152, <<op, v>>), 49152, hi * 256 + lo,
                            0, 240, 0, 0, 0, 0, 193, 0)>>
       \/ \E op \in {232, 248}, sp \in WordSample, v \in ByteSample :
            cpu = <<Running(Load(Mem0, 49152, <<op, v>>), 49152, sp,
                            0, 0, 0, 0, 0, 0, 193, 0)>>

NextArith == Len(hist) < MaxAluSteps /\ Step

SpecArith == InitArith /\ [][NextArith]_vars

---------------------------------------------------------------------------
(* Properties.  Now is the CPU, Last the CPU before its latest step, and   *)
(* Mem the memory manager, whoever owns it.                                *)

Now == cpu[1]

Stepped == cpu # << >> /\ hist # << >>

Last == hist[Len(hist)]

Mem == IF mmu # << >> THEN mmu[1] ELSE cpu[1].mmu

\* The opcode a step of CPU s fetches, and the operand bytes after it.
Opcode(s) == read(s.mmu, s.pc)

Operand1(s) == read(s.mmu, (s.pc + 1) % 65536)

Operand2(s) == read(s.mmu, (s.pc + 2) % 65536)

FlagZ(s) == s.f >= 128

FlagN(s) == (s.f \div 64) % 2 = 1

FlagH(s) == (s.f \div 32) % 2 = 1

FlagC(s) == (s.f \div 16) % 2 = 1

InRam(addr) == (addr >= 49152 /\ addr <= 57343) \/ (addr >= 65408 /\ addr <= 65534)

InBoot(addr) == addr >= 0 /\ addr <= 255

\* C1: in every state reached by step() calls the low nibble (bits 0-3) of
\* register F is 0, POP AF of arbitrary stack bytes included.
C1_FlagLowNibbleZero == cpu # << >> => Now.f % 16 = 0

\* C1 witness: POP AF has just popped a flag byte whose low nibble is not 0.
C1_Witness ==
    /\ Stepped
    /\ Opcode(Last) = 241
    /\ read(Last.mmu, Last.sp) % 16 # 0
    /\ Now.a = read(Last.mmu, (Last.sp + 1) % 65536)

\* The last host call, when it is a write16.
LastCall == call[Len(call)]

AfterWrite16 == mmu # << >> /\ call # << >> /\ LastCall.name = "write16"

\* C2 as stated: write16(addr, v) then read16(addr) yields v for every addr in
\* a backed region (boot image, working RAM or high RAM).
C2_Original ==
    AfterWrite16 /\ (InBoot(LastCall.addr) \/ InRam(LastCall.addr))
        => read16(mmu[1], LastCall.addr) = LastCall.val

\* C2 amended: write16(addr, v) then read16(addr) yields v whenever addr and
\* addr+1 both lie in working RAM or high RAM (0xc000..0xdffe, 0xff80..0xfffd).
C2_RoundTripInRam ==
    AfterWrite16 /\ InRam(LastCall.addr) /\ InRam((LastCall.addr + 1) % 65536)
        => read16(mmu[1], LastCall.addr) = LastCall.val

\* C2 witness: 0x1234 written at the last word of working RAM reads back.
C2_Witness ==
    /\ AfterWrite16
    /\ LastCall.addr = 57342
    /\ LastCall.val = 4660
    /\ read16(mmu[1], 57342) = 4660

\* The register pair a PUSH/POP opcode names (0xc5/0xc1 BC .. 0xf5/0xf1 AF).
PairOf(s, op) ==
    CASE op \in {197, 193} -> <<s.b, s.c>>
      [] op \in {213, 209} -> <<s.d, s.e>>
      [] op \in {229, 225} -> <<s.h, s.l>>
      [] op \in {245, 241} -> <<s.a, s.f - (s.f % 16)>>

\* The CPU two steps ago ran PUSH rr and the CPU one step ago POP rr.
PushedThenPopped ==
    /\ cpu # << >>
    /\ Len(hist) >= 2
    /\ Opcode(hist[Len(hist) - 1]) \in {197, 213, 229, 245}
    /\ Opcode(Last) = Opcode(hist[Len(hist) - 1]) - 4

BeforePush == hist[Len(hist) - 1]

\* C3 as stated: from any CPU state PUSH rr directly followed by POP rr leaves
\* SP and the pair unchanged (AF: but for the low nibble of F forced to 0).
C3_Original ==
    PushedThenPopped =>
        /\ Now.sp = BeforePush.sp
        /\ PairOf(Now, Opcode(Last)) = PairOf(BeforePush, Opcode(Last))

\* C3 amended: SP is unchanged in every case; the pair is unchanged when both
\* bytes of the stack slot, (SP-2) and (SP-1) mod 65536, lie in working RAM or
\* high RAM.
C3_StackSymmetryInRam ==
    PushedThenPopped =>
        /\ Now.sp = BeforePush.sp
        /\ InRam((BeforePush.sp - 2) % 65536) /\ InRam((BeforePush.sp - 1) % 65536)
            => PairOf(Now, Opcode(Last)) = PairOf(BeforePush, Opcode(Last))

\* C3 witness: PUSH BC, POP BC on a stack in working RAM restored BC = 0x1234.
C3_Witness ==
    /\ PushedThenPopped
    /\ Opcode(Last) = 193
    /\ BeforePush.sp = 49410
    /\ Now.sp = 49410
    /\ read16(Last.mmu, 49408) = 4660
    /\ <<Now.b, Now.c>> = <<18, 52>>

\* CPU s is at one of four conditional opcodes (NZ, Z, NC, C forms) and the
\* condition that opcode tests does not hold.
NotTaken(s, nz, z, nc, cy) ==
    \/ Opcode(s) = nz /\ FlagZ(s)
    \/ Opcode(s) = z /\ ~FlagZ(s)
    \/ Opcode(s) = nc /\ FlagC(s)
    \/ Opcode(s) = cy /\ ~FlagC(s)

\* C4: a conditional jump, call or return whose condition does not hold only
\* moves PC past the instruction: JP cc,d16 and CALL cc,d16 to X+3, JR cc,d8
\* to X+2, RET cc to X+1 (PC arithmetic is modulo 65536); SP, memory and the
\* other registers are unchanged.
C4_NotTakenOnlyAdvancesPc ==
    Stepped =>
        /\ NotTaken(Last, 194, 202, 210, 218) \/ NotTaken(Last, 196, 204, 212, 220)
            => Now = [Last EXCEPT !.pc = (Last.pc + 3) % 65536]
        /\ NotTaken(Last, 32, 40, 48, 56)
            => Now = [Last EXCEPT !.pc = (Last.pc + 2) % 65536]
        /\ NotTaken(Last, 192, 200, 208, 216)
            => Now = [Last EXCEPT !.pc = (Last.pc + 1) % 65536]

\* C4 witness: JP NZ,d16 at X = 0xc000 with Z set has ended at X+3.
C4_Witness ==
    /\ Stepped
    /\ Opcode(Last) = 194
    /\ FlagZ(Last)
    /\ Last.pc = 49152
    /\ Now.pc = 49155

\* The host stored byte val at addr with a write call.
HostStored(addr, val) ==
    \E i \in 1..Len(call) :
        call[i].name = "write" /\ call[i].addr = addr /\ call[i].val = val

\* C5 as stated: with 3e 05 c6 03 00 stored at 0x0100..0x0104, three steps from
\* the constructed CPU state give A == 8, Z=N=H=C=0 and PC == 0x0105.
C5_Original ==
    /\ cpu # << >>
    /\ Len(hist) = 3
    /\ HostStored(256, 62) /\ HostStored(257, 5) /\ HostStored(258, 198)
    /\ HostStored(259, 3) /\ HostStored(260, 0)
    => Now.a = 8 /\ Now.f = 0 /\ Now.pc = 261

\* Memory m holds the program 3e 05 c6 03 00 from address base on.
ProgramAt(m, base) ==
    /\ read(m, base) = 62 /\ read(m, base + 1) = 5 /\ read(m, base + 2) = 198
    /\ read(m, base + 3) = 3 /\ read(m, base + 4) = 0

\* C5 amended: 0x0100 is unmapped, so the first step from the constructed CPU
\* state runs RST 0x38; with 3e 05 c6 03 00 in the boot image at
\* 0x0038..0x003c, four steps give A == 8, Z=N=H=C=0 and PC == 0x003d.
C5_ProgramInBootImage ==
    cpu # << >> /\ Len(hist) = 4 /\ ProgramAt(hist[1].mmu, 56)
        => hist[2].pc = 56 /\ Now.a = 8 /\ Now.f = 0 /\ Now.pc = 61

\* C5 witness: the four steps have run over the program in the boot image.
C5_Witness ==
    /\ cpu # << >>
    /\ Len(hist) = 4
    /\ ProgramAt(hist[1].mmu, 56)
    /\ hist[1].pc = 256
    /\ hist[3].a = 5
    /\ Now.a = 8

\* The sampled addresses outside boot image, working RAM and high RAM.
Unmapped == {addr \in Addrs : ~InBoot(addr) /\ ~InRam(addr)}

\* C6: every read of an unmapped address (0x8000 and 0x9000 among them) yields
\* 0xff, and a write to an unmapped address changes no later read.
C6_UnmappedReadsFF ==
    /\ \A addr \in Unmapped \cup {32768, 36864} : read(Mem, addr) = 255
    /\ mmu # << >> /\ call # << >> /\ LastCall.name = "write"
       /\ ~InBoot(LastCall.addr) /\ ~InRam(LastCall.addr)
        => /\ mmu[1] = LastCall.before
           /\ \A addr \in Addrs : read(mmu[1], addr) = read(LastCall.before, addr)

\* C6 witness: 0x42 written at 0x8000 after a write into working RAM, and
\* 0x8000 still reads 0xff.
C6_Witness ==
    /\ mmu # << >>
    /\ Len(call) = 2
    /\ InRam(call[1].addr) /\ call[1].val = 66
    /\ LastCall.name = "write" /\ LastCall.addr = 32768 /\ LastCall.val = 66
    /\ read(mmu[1], 32768) = 255

\* The operand of an 8-bit ALU opcode: low three bits 0..7 name B, C, D, E, H,
\* L, the byte at HL, A; opcodes from 0xc0 on take the immediate byte.
AluOperand(s) ==
    IF Opcode(s) >= 192
    THEN Operand1(s)
    ELSE <<s.b, s.c, s.d, s.e, s.h, s.l, read(s.mmu, s.h * 256 + s.l), s.a>>[(Opcode(s) % 8) + 1]

\* Register F with the given Z, N, H, C flags.
FlagByte(z, n, h, c) ==
    (IF z THEN 128 ELSE 0) + (IF n THEN 64 ELSE 0)
        + (IF h THEN 32 ELSE 0) + (IF c THEN 16 ELSE 0)

IsAdd(s) == Opcode(s) \in 128..135 \cup {198}

IsSub(s) == Opcode(s) \in 144..151 \cup {214}

\* C7: ADD A,x (register, byte at HL or immediate) with A = a, x = b sets
\* A = (a+b) mod 256, C iff a+b > 0xff, H iff (a & 0xf) + (b & 0xf) > 0xf,
\* Z iff the result is 0, and N = 0.
C7_AddFlags ==
    Stepped /\ IsAdd(Last) =>
        LET a == Last.a
            b == AluOperand(Last)
        IN /\ Now.a = (a + b) % 256
           /\ Now.f = FlagByte((a + b) % 256 = 0, FALSE,
                               (a % 16) + (b % 16) > 15, a + b > 255)

\* C7 witness: ADD A,d8 of 0xff + 0x01 gave 0 with Z, H and C set.
C7_Witness ==
    /\ Stepped
    /\ Opcode(Last) = 198
    /\ Last.a = 255 /\ Operand1(Last) = 1
    /\ Now.a = 0 /\ Now.f = 176

\* C8: SUB A,x with A = a, x = b sets A = (a-b) mod 256, C iff a < b,
\* H iff (a & 0xf) < (b & 0xf), Z iff a == b, and N = 1.
C8_SubFlags ==
    Stepped /\ IsSub(Last) =>
        LET a == Last.a
            b == AluOperand(Last)
        IN /\ Now.a = (a - b) % 256
           /\ Now.f = FlagByte(a = b, TRUE, (a % 16) < (b % 16), a < b)

\* C8 witness: SUB A,d8 of 0x10 - 0x21 gave 0xef with N, H and C set.
C8_Witness ==
    /\ Stepped
    /\ Opcode(Last) = 214
    /\ Last.a = 16 /\ Operand1(Last) = 33
    /\ Now.a = 239 /\ Now.f = 112

\* The value DAA leaves in A, and whether it applied the 0x60 adjustment.
DaaHigh(s) == ~FlagN(s) /\ (FlagC(s) \/ s.a > 153)

DaaResult(s) ==
    IF ~FlagN(s)
    THEN (s.a + (IF DaaHigh(s) THEN 96 ELSE 0)
              + (IF FlagH(s) \/ s.a % 16 > 9 THEN 6 ELSE 0)) % 256
    ELSE (s.a - (IF FlagC(s) THEN 96 ELSE 0) - (IF FlagH(s) THEN 6 ELSE 0)) % 256

\* C9: DAA with N clear adds 0x60 when C is set or A > 0x99 (setting C) and
\* 0x06 when H is set or the low nibble of A is > 9; with N set it subtracts
\* 0x60 when C is set and 0x06 when H is set, C unchanged.  Z tells whether the
\* result is 0, H is cleared, N unchanged.  A = 0x45 with flags clear stays
\* 0x45 (Z = 0, C = 0); A = 0x9a with flags clear gives 0x00 with C = 1.
C9_Daa ==
    Stepped /\ Opcode(Last) = 39 =>
        /\ Now.a = DaaResult(Last)
        /\ Now.f = FlagByte(DaaResult(Last) = 0, FlagN(Last), FALSE,
                            FlagC(Last) \/ DaaHigh(Last))
        /\ Last.a = 69 /\ Last.f = 0 => Now.a = 69 /\ ~FlagZ(Now) /\ ~FlagC(Now)
        /\ Last.a = 154 /\ Last.f = 0 => Now.a = 0 /\ FlagC(Now)

\* C9 witness: DAA of A = 0x9a with flags clear gave 0x00 with Z and C set.
C9_Witness ==
    /\ Stepped
    /\ Opcode(Last) = 39
    /\ Last.a = 154 /\ Last.f = 0
    /\ Now.a = 0 /\ Now.f = 144

\* CPU s is at CALL d16 or at a CALL cc,d16 whose condition holds.
CallTaken(s) ==
    \/ Opcode(s) = 205
    \/ Opcode(s) = 196 /\ ~FlagZ(s)
    \/ Opcode(s) = 204 /\ FlagZ(s)
    \/ Opcode(s) = 212 /\ ~FlagC(s)
    \/ Opcode(s) = 220 /\ FlagC(s)

\* C10: a taken CALL at X sets SP' = (SP-2) mod 65536, writes the return
\* address X+3 (mod 65536) at SP', low byte at SP' and high byte at SP'+1, and
\* sets PC to the 16-bit operand; nothing else changes.
C10_Call ==
    Stepped /\ CallTaken(Last) =>
        LET sp1 == (Last.sp - 2) % 65536
            return == (Last.pc + 3) % 65536
            target == Operand1(Last) + 256 * Operand2(Last)
        IN Now = [Last EXCEPT !.sp = sp1,
                              !.pc = target,
                              !.mmu = write(write(Last.mmu, sp1, return % 256),
                                            (sp1 + 1) % 65536, return \div 256)]

\* C10 witness: CALL 0xc000 at X = 0xc000 with SP = 0xc102 left 0xc003 at
\* 0xc100 and SP = 0xc100.
C10_Witness ==
    /\ Stepped
    /\ Opcode(Last) = 205
    /\ Last.pc = 49152 /\ Last.sp = 49410
    /\ Now.sp = 49408 /\ Now.pc = 49152
    /\ read(Now.mmu, 49408) = 3 /\ read(Now.mmu, 49409) = 192

\* CPU s is at RET, RETI or a RET cc whose condition holds.
ReturnTaken(s) ==
    \/ Opcode(s) \in {201, 217}
    \/ Opcode(s) = 192 /\ ~FlagZ(s)
    \/ Opcode(s) = 200 /\ FlagZ(s)
    \/ Opcode(s) = 208 /\ ~FlagC(s)
    \/ Opcode(s) = 216 /\ FlagC(s)

\* C11: a return (RET, RETI, taken RET cc) sets PC to the little-endian word at
\* the SP it starts with (low byte at SP, high byte at SP+1), then SP to
\* (SP+2) mod 65536; memory and all other registers are unchanged.
C11_Return ==
    Stepped /\ ReturnTaken(Last) =>
        Now = [Last EXCEPT
                 !.pc = read(Last.mmu, Last.sp)
                            + 256 * read(Last.mmu, (Last.sp + 1) % 65536),
                 !.sp = (Last.sp + 2) % 65536]

\* C11 witness: RETI with SP = 0xc102 popped 0x5aff (bytes ff 5a) and left
\* SP = 0xc104.
C11_Witness ==
    /\ Stepped
    /\ Opcode(Last) = 217
    /\ Last.sp = 49410
    /\ read(Last.mmu, 49410) = 255 /\ read(Last.mmu, 49411) = 90
    /\ Now.pc = 23295 /\ Now.sp = 49412

\* The primary opcodes without an arm in step's table: 0x10, 0x76, 0xd3, 0xdb,
\* 0xdd, 0xe3, 0xe4, 0xeb, 0xec, 0xed, 0xf4, 0xfc, 0xfd.
UndefinedOpcodes == {16, 118, 211, 219, 221, 227, 228, 235, 236, 237, 244, 252, 253}

\* C12: step() on an opcode without a defined operation aborts with a message
\* carrying that opcode value, and no step is ever made from an aborted CPU.
C12_UndefinedOpcodeAborts ==
    Stepped =>
        /\ Opcode(Last) \in UndefinedOpcodes
            => Now.panic = <<"Unimplemented opcode", Opcode(Last)>>
        /\ \A i \in 1..Len(hist) : hist[i].panic = << >>

\* C12 witness: opcode 0xd3 has aborted the CPU while the step bound still
\* leaves room for a further step.
C12_Witness ==
    /\ Stepped
    /\ Len(hist) < MaxDepth
    /\ Opcode(Last) = 211
    /\ Now.panic = <<"Unimplemented opcode", 211>>

\* The addresses the instruction at CPU s may read or write: its own bytes,
\* the stack slots around SP, the register pairs, the I/O page offsets and its
\* 16-bit operand, besides the boundaries of every region.
Touched(s) ==
    LET d16 == Operand1(s) + 256 * Operand2(s)
    IN { (s.pc + k) % 65536 : k \in 0..2 }
       \cup { (s.sp + k) % 65536 : k \in {-2, -1, 0, 1} }
       \cup { s.h * 256 + s.l, s.b * 256 + s.c, s.d * 256 + s.e }
       \cup { 65280 + s.c, 65280 + Operand1(s), d16, (d16 + 1) % 65536 }
       \cup Addrs

\* CPU s has not aborted: no panic, every register within its width, no
\* vector indexed past its end.
Completed(s) ==
    /\ s.panic = << >>
    /\ \A r \in {s.a, s.f, s.b, s.c, s.d, s.e, s.h, s.l} : r \in 0..255
    /\ s.pc \in 0..65535 /\ s.sp \in 0..65535
    /\ ~s.mmu.boot_rom.fault /\ ~s.mmu.ram.fault /\ ~s.mmu.hram.fault

\* The instruction at CPU s has a defined operation (every byte after the
\* 0xcb prefix has one).
Defined(s) == Opcode(s) \notin UndefinedOpcodes

\* C13: step() on a defined opcode completes whatever addresses in
\* 0x0000..0xffff it reads or writes and whatever its arithmetic overflows:
\* every byte it may read is a byte, no vector is indexed out of bounds, and
\* every register stays within its width.
C13_DefinedOpcodesComplete ==
    Stepped /\ Defined(Last) =>
        /\ Completed(Now)
        /\ \A addr \in Touched(Last) :
             read(Last.mmu, addr) \in 0..255 /\ read(Now.mmu, addr) \in 0..255

\* C13 witness: LD (HL),A with HL = 0xffff (unbacked) completed and left
\* 0xffff reading 0xff.
C13_Witness ==
    /\ Stepped
    /\ Opcode(Last) = 119
    /\ Last.h * 256 + Last.l = 65535
    /\ Completed(Now)
    /\ read(Now.mmu, 65535) = 255

\* The memory manager as MMU::new left it: before the host's first call, or
\* before the first step when the host made none.
Loaded ==
    IF call # << >> THEN call[1].before
    ELSE IF hist # << >> THEN hist[1].mmu
    ELSE Mem

\* C14: every address in 0x0000..0x00ff reads the byte loaded at construction
\* in every state reached by write, write16 and step() calls.
C14_BootImageReadOnly ==
    \A addr \in 0..255 : read(Mem, addr) = read(Loaded, addr)

\* C14 witness: the host wrote 0x42 at 0x0000 and 0x1234 at 0x00ff, the CPU
\* ran LD (HL),d8 with HL = 0x0038, and 0x0000 and 0x0038 read as loaded.
C14_Witness ==
    /\ Stepped
    /\ HostStored(0, 66)
    /\ Len(call) >= 2 /\ call[2].name = "write16" /\ call[2].addr = 255
    /\ Opcode(Last) = 54
    /\ Last.h * 256 + Last.l = 56
    /\ read(Now.mmu, 0) = 0
    /\ read(Now.mmu, 56) = 33

\* Addresses that could alias a: the same low 13 bits, the same low 7 bits in
\* the RAM and I/O pages, and the neighbours of a, besides the boundaries of
\* every region.
AliasCandidates(a) ==
    ({ (a + 8192 * k) % 65536 : k \in 1..7 }
        \cup { 49152 + (a % 128), 65280 + (a % 128), 65408 + (a % 128) }
        \cup { (a + 1) % 65536, (a - 1) % 65536 }
        \cup Addrs) \ {a}

\* C15: working RAM and high RAM read 0 before any write; after write(a, v)
\* with a in 0xc000..0xdfff or 0xff80..0xfffe, read(a) returns v and read(b) is
\* unchanged for every other address b.
C15_RamExactNoAliasing ==
    /\ mmu # << >> /\ call = << >>
        => \A a \in (49152..57343) \cup (65408..65534) : read(mmu[1], a) = 0
    /\ mmu # << >> /\ call # << >> /\ LastCall.name = "write" /\ InRam(LastCall.addr)
        => /\ read(mmu[1], LastCall.addr) = LastCall.val
           /\ \A b \in AliasCandidates(LastCall.addr) :
                read(mmu[1], b) = read(LastCall.before, b)

\* C15 witness: 0x42 written at 0xc000, then 0xff at 0xff80 (low 7 bits equal):
\* 0xff80 reads 0xff and 0xc000 still 0x42.
C15_Witness ==
    /\ mmu # << >>
    /\ Len(call) = 2
    /\ call[1].name = "write" /\ call[1].addr = 49152 /\ call[1].val = 66
    /\ call[2].name = "write" /\ call[2].addr = 65408 /\ call[2].val = 255
    /\ read(mmu[1], 65408) = 255
    /\ read(mmu[1], 49152) = 66

\* A byte read as a two's-complement offset.
Signed8(b) == IF b >= 128 THEN b - 256 ELSE b

\* CPU s is at JR d8 or at a JR cc,d8 whose condition holds.
JrTaken(s) ==
    \/ Opcode(s) = 24
    \/ Opcode(s) = 32 /\ ~FlagZ(s)
    \/ Opcode(s) = 40 /\ FlagZ(s)
    \/ Opcode(s) = 48 /\ ~FlagC(s)
    \/ Opcode(s) = 56 /\ FlagC(s)

\* The opcodes that push (PUSH rr, RST n, taken CALL) and that pop (POP rr,
\* taken returns).
Pushes(s) ==
    Opcode(s) \in {197, 213, 229, 245} \cup {199 + 8 * k : k \in 0..7} \/ CallTaken(s)

Pops(s) == Opcode(s) \in {193, 209, 225, 241} \/ ReturnTaken(s)

\* Two-byte instructions that never branch: LD r,d8, the ALU d8 forms,
\* LDH (d8),A, LDH A,(d8), ADD SP,d8 and LD HL,SP+d8.
HasD8(s) ==
    Opcode(s) \in {6 + 8 * k : k \in 0..7} \cup {198 + 8 * k : k \in 0..7}
                  \cup {224, 240, 232, 248}

\* C16: PC and SP arithmetic wraps modulo 65536 without aborting.  An opcode
\* fetched at 0xffff (always 0xff, RST 0x38) continues at 0x0000, which is the
\* return address it pushes; an 8-bit immediate at 0xffff leaves PC = 0x0000;
\* a 16-bit immediate at 0xffff takes its high byte from 0x0000 and leaves
\* PC = 0x0001; a relative jump goes to (PC + offset) mod 65536; pushes and
\* calls give (SP-2) mod 65536, pops and returns (SP+2) mod 65536; INC SP,
\* DEC SP, ADD SP,d8 and LD HL,SP+d8 wrap likewise.
C16_PcSpWrap ==
    Stepped =>
        /\ Last.pc = 65535
            => Now = [Last EXCEPT
                        !.pc = 56,
                        !.sp = (Last.sp - 2) % 65536,
                        !.mmu = write(write(Last.mmu, (Last.sp - 2) % 65536, 0),
                                      (Last.sp - 1) % 65536, 0)]
        /\ Last.pc = 65534 /\ HasD8(Last) => Now.pc = 0 /\ Now.panic = << >>
        /\ Last.pc = 65534 /\ Opcode(Last) = 62 => Now.a = 255
        /\ Last.pc = 65534 /\ Opcode(Last) \in {1, 17, 33, 49}
            => Now.pc = 1 /\ Now.panic = << >>
        /\ Last.pc = 65534 /\ Opcode(Last) = 49
            => Now.sp = 255 + 256 * read(Last.mmu, 0)
        /\ Last.pc = 65534 /\ Opcode(Last) = 195
            => Now.pc = 255 + 256 * read(Last.mmu, 0)
        /\ JrTaken(Last)
            => Now.pc = (Last.pc + 2 + Signed8(Operand1(Last))) % 65536
               /\ Now.panic = << >>
        /\ Pushes(Last)
            => Now.sp = (Last.sp - 2) % 65536 /\ Now.panic = << >>
               /\ (Last.sp < 2 => Now.sp = Last.sp + 65534)
        /\ Pops(Last)
            => Now.sp = (Last.sp + 2) % 65536 /\ Now.panic = << >>
               /\ (Last.sp > 65533 => Now.sp = Last.sp - 65534)
        /\ Opcode(Last) = 51 => Now.sp = (Last.sp + 1) % 65536 /\ Now.panic = << >>
        /\ Opcode(Last) = 59 => Now.sp = (Last.sp - 1) % 65536 /\ Now.panic = << >>
        /\ Opcode(Last) = 232
            => Now.sp = (Last.sp + Signed8(Operand1(Last))) % 65536
               /\ Now.panic = << >>
        /\ Opcode(Last) = 248
            => Now.h * 256 + Now.l = (Last.sp + Signed8(Operand1(Last))) % 65536
               /\ Now.sp = Last.sp

\* C16 witness: JR d8 at 0xfffd with offset +127 went from 0xffff to 0x007e.
C16_Witness ==
    /\ Stepped
    /\ Opcode(Last) = 24
    /\ Last.pc = 65533
    /\ Operand1(Last) = 127
    /\ Now.pc = 126

\* The CPU as CPU::new returned it: the CPU before its first step.
Constructed == IF hist = << >> THEN Now ELSE hist[1]

\* C17: the freshly constructed CPU has PC = 0x0100 and SP, A, F, B, C, D, E,
\* H, L all 0.
C17_InitialCpuState ==
    cpu # << >> =>
        /\ Constructed.pc = 256
        /\ Constructed.sp = 0
        /\ \A r \in {Constructed.a, Constructed.f, Constructed.b, Constructed.c,
                     Constructed.d, Constructed.e, Constructed.h, Constructed.l} : r = 0
        /\ Constructed.panic = << >>

\* C17 witness: CPU::new has just returned, after host calls on the MMU, and
\* no step has run.
C17_Witness ==
    /\ cpu # << >>
    /\ hist = << >>
    /\ call # << >>
    /\ Now.pc = 256
    /\ Now.sp = 0

\* The number of operand bytes of a primary opcode: two for the d16/a16 forms
\* (LD rr,d16, LD (a16),SP, JP, JP cc, CALL, CALL cc, LD (a16),A, LD A,(a16)),
\* one for the d8 forms (LD r,d8, JR, JR cc, ALU d8, LDH, ADD SP,d8,
\* LD HL,SP+d8) and for the 0xcb prefix, none otherwise.
OperandLen(op) ==
    IF op \in {1, 17, 33, 49, 8, 194, 202, 210, 218, 195, 196, 204, 212, 220,
               205, 234, 250}
    THEN 2
    ELSE IF op \in {6 + 8 * k : k \in 0..7} \cup {198 + 8 * k : k \in 0..7}
                   \cup {24, 32, 40, 48, 56, 224, 240, 232, 248, 203}
    THEN 1
    ELSE 0

\* The instruction at CPU s takes a branch: JP, JP HL, RST, a taken JP cc,
\* a taken jump relative, call or return.
Branches(s) ==
    \/ Opcode(s) \in {195, 233} \cup {199 + 8 * k : k \in 0..7}
    \/ Opcode(s) \in {194, 202, 210, 218} /\ ~NotTaken(s, 194, 202, 210, 218)
    \/ JrTaken(s)
    \/ CallTaken(s)
    \/ ReturnTaken(s)

\* The 16-bit operand of the instruction at CPU s, little-endian.
Imm16(s) == Operand1(s) + 256 * Operand2(s)

\* C18: an instruction with an n-byte operand executed at X without taking a
\* branch ends with PC = X + 1 + n (modulo 65536); an 8-bit immediate is the
\* byte after the opcode, a 16-bit immediate is byte(X+1) + 256 * byte(X+2).
C18_ImmediateFetch ==
    Stepped /\ Defined(Last) =>
        /\ ~Branches(Last)
            => Now.pc = (Last.pc + 1 + OperandLen(Opcode(Last))) % 65536
        /\ Opcode(Last) = 62 => Now.a = Operand1(Last)
        /\ Opcode(Last) = 6 => Now.b = Operand1(Last)
        /\ Opcode(Last) = 1 => Now.b * 256 + Now.c = Imm16(Last)
        /\ Opcode(Last) = 17 => Now.d * 256 + Now.e = Imm16(Last)
        /\ Opcode(Last) = 33 => Now.h * 256 + Now.l = Imm16(Last)
        /\ Opcode(Last) = 49 => Now.sp = Imm16(Last)
        /\ Opcode(Last) = 195 => Now.pc = Imm16(Last)
        /\ Opcode(Last) = 250 => Now.a = read(Last.mmu, Imm16(Last))

\* C18 witness: LD BC,d16 at 0xc000 with operand bytes fe ff loaded 0xfffe and
\* ended at 0xc003.
C18_Witness ==
    /\ Stepped
    /\ Opcode(Last) = 1
    /\ Last.pc = 49152
    /\ Operand1(Last) = 254 /\ Operand2(Last) = 255
    /\ Now.b = 255 /\ Now.c = 254
    /\ Now.pc = 49155

\* The 8-bit operand an index names in CPU s: B, C, D, E, H, L, the byte at
\* HL, A.
Operand8(s, idx) ==
    <<s.b, s.c, s.d, s.e, s.h, s.l, read(s.mmu, s.h * 256 + s.l), s.a>>[idx + 1]

\* CPU s with the operand an index names set to val: for index 6 a memory
\* write at HL, no register touched.
WithOperand8(s, idx, val) ==
    CASE idx = 0 -> [s EXCEPT !.b = val]
      [] idx = 1 -> [s EXCEPT !.c = val]
      [] idx = 2 -> [s EXCEPT !.d = val]
      [] idx = 3 -> [s EXCEPT !.e = val]
      [] idx = 4 -> [s EXCEPT !.h = val]
      [] idx = 5 -> [s EXCEPT !.l = val]
      [] idx = 6 -> [s EXCEPT !.mmu = write(s.mmu, s.h * 256 + s.l, val)]
      [] idx = 7 -> [s EXCEPT !.a = val]

\* C19: operand indexes 0..7 select B, C, D, E, H, L, memory at HL, A for reads
\* and writes; LD r8,r8 (0x40..0x7f but 0x76) copies the operand named by
\* opcode bits 0-2 into the one named by bits 3-5 and changes nothing else but
\* PC; index 6 goes through the memory manager, so a read of an unmapped HL
\* yields 0xff and a write to an unbacked or boot-image HL leaves memory and
\* registers unchanged.
C19_OperandIndexing ==
    Stepped /\ Opcode(Last) \in (64..127) \ {118} =>
        LET src == Opcode(Last) % 8
            dst == (Opcode(Last) \div 8) % 8
            hl0 == Last.h * 256 + Last.l
            val == Operand8(Last, src)
        IN /\ Now = WithOperand8([Last EXCEPT !.pc = (Last.pc + 1) % 65536], dst, val)
           /\ src = 6 /\ ~InBoot(hl0) /\ ~InRam(hl0) => val = 255
           /\ dst = 6 /\ ~InRam(hl0)
                => Now = [Last EXCEPT !.pc = (Last.pc + 1) % 65536]
           /\ dst = 6 /\ InRam(hl0) => read(Now.mmu, hl0) = val

\* C19 witness: LD (HL),B with HL = 0x0038 in the boot image completed and left
\* 0x0038 as loaded.
C19_Witness ==
    /\ Stepped
    /\ Opcode(Last) = 112
    /\ Last.h * 256 + Last.l = 56
    /\ Last.b = 18
    /\ read(Now.mmu, 56) = 60
    /\ Now.pc = (Last.pc + 1) % 65536

IsAdc(s) == Opcode(s) \in 136..143 \cup {206}

IsSbc(s) == Opcode(s) \in 152..159 \cup {222}

\* The carry flag of CPU s as a number.
CarryIn(s) == IF FlagC(s) THEN 1 ELSE 0

\* C20: with A = a, operand b and incoming carry c, ADC leaves
\* A = (a+b+c) mod 256, H iff (a & 0xf) + (b & 0xf) + c > 15, C iff
\* a+b+c > 255, Z iff the result is 0, N = 0; SBC leaves A = (a-b-c) mod 256,
\* H iff (a & 0xf) < (b & 0xf) + c, C iff a < b + c, Z iff the result is 0,
\* N = 1.
C20_AdcSbcFlags ==
    Stepped =>
        LET a == Last.a
            b == AluOperand(Last)
            c == CarryIn(Last)
        IN /\ IsAdc(Last) =>
                /\ Now.a = (a + b + c) % 256
                /\ Now.f = FlagByte((a + b + c) % 256 = 0, FALSE,
                                    (a % 16) + (b % 16) + c > 15, a + b + c > 255)
           /\ IsSbc(Last) =>
                /\ Now.a = (a - b - c) % 256
                /\ Now.f = FlagByte((a - b - c) % 256 = 0, TRUE,
                                    (a % 16) < (b % 16) + c, a < b + c)

\* C20 witness: ADC A,d8 of 0x0f + 0x00 with carry set gave 0x10 with only H
\* set.
C20_Witness ==
    /\ Stepped
    /\ Opcode(Last) = 206
    /\ Last.a = 15 /\ Operand1(Last) = 0 /\ FlagC(Last)
    /\ Now.a = 16 /\ Now.f = 32

IsCp(s) == Opcode(s) \in 184..191 \cup {254}

\* C21: CP x (register, byte at HL or immediate) with A = a, x = b sets the
\* flags SUB would set (Z iff a == b, N = 1, H iff (a & 0xf) < (b & 0xf),
\* C iff a < b) and leaves A, every other register and memory unchanged; only
\* PC moves past the instruction.
C21_CpFlags ==
    Stepped /\ IsCp(Last) =>
        LET a == Last.a
            b == AluOperand(Last)
        IN Now = [Last EXCEPT
                    !.pc = (Last.pc + 1 + OperandLen(Opcode(Last))) % 65536,
                    !.f = FlagByte(a = b, TRUE, (a % 16) < (b % 16), a < b)]

\* C21 witness: CP 0x21 with A = 0x10 set N, H and C and left A = 0x10.
C21_Witness ==
    /\ Stepped
    /\ Opcode(Last) = 254
    /\ Last.a = 16 /\ Operand1(Last) = 33
    /\ Now.a = 16 /\ Now.f = 112

IsInc(s) == Opcode(s) \in {4 + 8 * k : k \in 0..7}

IsDec(s) == Opcode(s) \in {5 + 8 * k : k \in 0..7}

\* C22: INC of the operand named by opcode bits 3-5 (memory at HL included),
\* holding v, stores (v+1) mod 256 with Z iff the result is 0, N = 0, H iff
\* (v & 0xf) == 0xf; DEC stores (v-1) mod 256 with Z iff the result is 0,
\* N = 1, H iff (v & 0xf) == 0; C is unchanged, and so is everything else
\* but PC.
C22_IncDec ==
    Stepped /\ (IsInc(Last) \/ IsDec(Last)) =>
        LET idx == (Opcode(Last) \div 8) % 8
            v == Operand8(Last, idx)
            result == IF IsInc(Last) THEN (v + 1) % 256 ELSE (v - 1) % 256
            half == IF IsInc(Last) THEN v % 16 = 15 ELSE v % 16 = 0
        IN Now = WithOperand8(
                    [Last EXCEPT !.pc = (Last.pc + 1) % 65536,
                                 !.f = FlagByte(result = 0, IsDec(Last), half, FlagC(Last))],
                    idx, result)

\* C22 witness: INC B of 0xff with flags clear gave 0x00 with Z and H set and C
\* still clear.
C22_Witness ==
    /\ Stepped
    /\ Opcode(Last) = 4
    /\ Last.b = 255 /\ Last.f = 0
    /\ Now.b = 0 /\ Now.f = 160

\* The register pair ADD HL,rr names: 0x09 BC, 0x19 DE, 0x29 HL, 0x39 SP.
AddHlOperand(s) ==
    CASE Opcode(s) = 9 -> s.b * 256 + s.c
      [] Opcode(s) = 25 -> s.d * 256 + s.e
      [] Opcode(s) = 41 -> s.h * 256 + s.l
      [] Opcode(s) = 57 -> s.sp

\* C23: ADD HL,rr sets HL = (HL + rr) mod 65536, N = 0, H iff
\* (HL & 0xfff) + (rr & 0xfff) > 0xfff, C iff HL + rr > 0xffff, and leaves Z
\* (and everything else but PC) unchanged.
C23_AddHl ==
    Stepped /\ Opcode(Last) \in {9, 25, 41, 57} =>
        LET hl0 == Last.h * 256 + Last.l
            pair == AddHlOperand(Last)
            sum == (hl0 + pair) % 65536
        IN Now = [Last EXCEPT
                    !.pc = (Last.pc + 1) % 65536,
                    !.h = sum \div 256,
                    !.l = sum % 256,
                    !.f = FlagByte(FlagZ(Last), FALSE,
                                   (hl0 % 4096) + (pair % 4096) > 4095,
                                   hl0 + pair > 65535)]

\* C23 witness: ADD HL,BC of 0x0fff + 0x0001 with Z set gave 0x1000 with H set,
\* C clear and Z still set.
C23_Witness ==
    /\ Stepped
    /\ Opcode(Last) = 9
    /\ Last.h * 256 + Last.l = 4095
    /\ Last.b * 256 + Last.c = 1
    /\ Last.f = 128
    /\ Now.h = 16 /\ Now.l = 0
    /\ Now.f = 160

\* C24: ADD SP,d8 and LD HL,SP+d8 compute (SP + sign-extended d8) mod 65536
\* with Z = 0, N = 0, H iff (SP & 0xf) + (d8 & 0xf) > 0xf and C iff
\* (SP & 0xff) + d8 > 0xff, d8 taken as an unsigned byte; ADD SP,d8 stores the
\* sum in SP, LD HL,SP+d8 stores it in HL and leaves SP unchanged; nothing else
\* changes but PC.
C24_AddSp ==
    Stepped /\ Opcode(Last) \in {232, 248} =>
        LET d8 == Operand1(Last)
            sum == (Last.sp + Signed8(d8)) % 65536
            flags == FlagByte(FALSE, FALSE, (Last.sp % 16) + (d8 % 16) > 15,
                              (Last.sp % 256) + d8 > 255)
            next == [Last EXCEPT !.pc = (Last.pc + 2) % 65536, !.f = flags]
        IN /\ Opcode(Last) = 232 => Now = [next EXCEPT !.sp = sum]
           /\ Opcode(Last) = 248 => Now = [next EXCEPT !.h = sum \div 256, !.l = sum % 256]

\* C24 witness: LD HL,SP+d8 with SP = 0x00ff and d8 = 0xff (-1) gave
\* HL = 0x00fe with H and C set and SP unchanged.
C24_Witness ==
    /\ Stepped
    /\ Opcode(Last) = 248
    /\ Last.sp = 255 /\ Operand1(Last) = 255
    /\ Now.h = 0 /\ Now.l = 254
    /\ Now.sp = 255
    /\ Now.f = 48

\* The restart opcodes 0xc7, 0xcf, 0xd7, 0xdf, 0xe7, 0xef, 0xf7, 0xff.
RstOpcodes == { 199 + 8 * k : k \in 0..7 }

\* C25: each restart opcode fetched at X behaves as an unconditional call to
\* (opcode & 0x38) with return address X+1: SP' = (SP-2) mod 65536, the low
\* byte of X+1 written at SP' and the high byte at SP'+1, PC = opcode & 0x38;
\* nothing else changes.
C25_Restart ==
    Stepped /\ Opcode(Last) \in RstOpcodes =>
        LET sp1 == (Last.sp - 2) % 65536
            return == (Last.pc + 1) % 65536
            target == BitAnd(Opcode(Last), 56)
        IN Now = [Last EXCEPT !.sp = sp1,
                              !.pc = target,
                              !.mmu = write(write(Last.mmu, sp1, return % 256),
                                            (sp1 + 1) % 65536, return \div 256)]

\* C25 witness: RST 0x28 (0xef) at X = 0xc000 with SP = 0xc102 left 0xc001 at
\* 0xc100, SP = 0xc100 and PC = 0x0028.
C25_Witness ==
    /\ Stepped
    /\ Opcode(Last) = 239
    /\ Last.pc = 49152 /\ Last.sp = 49410
    /\ Now.sp = 49408 /\ Now.pc = 40
    /\ read(Now.mmu, 49408) = 1 /\ read(Now.mmu, 49409) = 192

\* The result and carry of the rotate or shift that block k (0..7: RLC, RRC,
\* RL, RR, SLA, SRA, SWAP, SRL) applies to the byte v with carry flag cy.
RotateShift(k, v, cy) ==
    LET lo == v % 2 = 1
        hi == v >= 128
        cin == IF cy THEN 1 ELSE 0
    IN CASE k = 0 -> [val |-> ((2 * v) % 256) + (v \div 128), carry |-> hi]
         [] k = 1 -> [val |-> (v \div 2) + 128 * (v % 2), carry |-> lo]
         [] k = 2 -> [val |-> ((2 * v) % 256) + cin, carry |-> hi]
         [] k = 3 -> [val |-> (v \div 2) + 128 * cin, carry |-> lo]
         [] k = 4 -> [val |-> (2 * v) % 256, carry |-> hi]
         [] k = 5 -> [val |-> (v \div 2) + (IF hi THEN 128 ELSE 0), carry |-> lo]
         [] k = 6 -> [val |-> (v % 16) * 16 + (v \div 16), carry |-> FALSE]
         [] k = 7 -> [val |-> v \div 2, carry |-> lo]

\* C26: every second byte after 0xcb has an operation, so the prefixed decoder
\* never aborts: 0x00-0x3f are RLC, RRC, RL, RR, SLA, SRA, SWAP, SRL in blocks
\* of 8, 0x40-0x7f BIT, 0x80-0xbf RES, 0xc0-0xff SET, with the bit position in
\* bits 3-5 and the operand index in bits 0-2; a prefixed instruction at X
\* ends with PC = X+2.
C26_PrefixedTotal ==
    Stepped /\ Opcode(Last) = 203 =>
        LET second == Operand1(Last)
            pos == (second \div 8) % 8
            idx == second % 8
            v == Operand8(Last, idx)
            isSet == (v \div (2 ^ pos)) % 2 = 1
            next == [Last EXCEPT !.pc = (Last.pc + 2) % 65536]
            rot == RotateShift(pos, v, FlagC(Last))
        IN /\ Now.panic = << >>
           /\ Now.pc = (Last.pc + 2) % 65536
           /\ second \in 0..63 =>
                Now = WithOperand8([next EXCEPT !.f = FlagByte(rot.val = 0, FALSE, FALSE,
                                                                rot.carry)], idx, rot.val)
           /\ second \in 64..127 =>
                Now = [next EXCEPT !.f = FlagByte(~isSet, FALSE, TRUE, FlagC(Last))]
           /\ second \in 128..191 =>
                Now = WithOperand8(next, idx, IF isSet THEN v - 2 ^ pos ELSE v)
           /\ second \in 192..255 =>
                Now = WithOperand8(next, idx, IF isSet THEN v ELSE v + 2 ^ pos)

\* C26 witness: 0xcb 0xd8 (SET 3,B) at X = 0xc000 with B = 0x12 gave B = 0x1a
\* and PC = 0xc002.
C26_Witness ==
    /\ Stepped
    /\ Opcode(Last) = 203 /\ Operand1(Last) = 216
    /\ Last.pc = 49152 /\ Last.b = 18
    /\ Now.b = 26
    /\ Now.pc = 49154
    /\ Now.panic = << >>

\* The number of step()'s match arms whose pattern holds each opcode.
ArmsMatching == [op \in 0..255 |-> Cardinality({ i \in DOMAIN StepArms : op \in StepArms[i] })]

\* C27: step() aborts on exactly the primary opcodes 0x10, 0x76, 0xd3, 0xdb,
\* 0xdd, 0xe3, 0xe4, 0xeb, 0xec, 0xed, 0xf4, 0xfc, 0xfd; each of the other 243
\* opcodes is matched by exactly one arm of the decoder, and stepping it does
\* not abort.
C27_AbortSetExact ==
    /\ Cardinality(UndefinedOpcodes) = 13
    /\ Stepped =>
            /\ (Now.panic # << >>) <=> (Opcode(Last) \in UndefinedOpcodes)
            /\ ArmsMatching[Opcode(Last)] = IF Now.panic # << >> THEN 0 ELSE 1

\* C27 witness: 0x76, between LD (HL),L and LD (HL),A, was fetched and step()
\* aborted.
C27_Witness ==
    /\ Stepped
    /\ Opcode(Last) = 118
    /\ Now.panic # << >>

\* C28: when step() aborts on an undefined primary opcode fetched at X, PC is
\* (X+1) mod 65536 at the abort and SP, the eight 8-bit registers and memory
\* are as before the step.
C28_AbortState ==
    Stepped /\ Now.panic # << >> =>
        /\ Opcode(Last) \in UndefinedOpcodes
        /\ Now = [Last EXCEPT !.pc = (Last.pc + 1) % 65536, !.panic = Now.panic]

\* C28 witness: 0xfd fetched at X = 0xfffe aborted with PC = 0xffff, SP and
\* memory as before.
C28_Witness ==
    /\ Stepped
    /\ Opcode(Last) = 253
    /\ Last.pc = 65534
    /\ Now.panic # << >>
    /\ Now.pc = 65535
    /\ Now.sp = Last.sp /\ Now.a = Last.a /\ Now.f = Last.f
    /\ Now.mmu = Last.mmu

\* C29: from the freshly constructed CPU (PC = 0x0100, SP = 0) the first
\* step() fetches 0xff from the unmapped address 0x0100 and executes RST 0x38,
\* whatever the boot image and whatever the host wrote before: afterwards
\* PC = 0x0038, SP = 0xfffe, the byte at 0xfffe is 0x01, the high byte written
\* to 0xffff is discarded (memory differs from before only at 0xfffe), and
\* every other register is still 0.
C29_FirstStep ==
    cpu # << >> /\ Len(hist) >= 1 =>
        LET s0 == hist[1]
            s1 == IF Len(hist) = 1 THEN Now ELSE hist[2]
        IN /\ Opcode(s0) = 255
           /\ s1 = [s0 EXCEPT !.pc = 56, !.sp = 65534, !.mmu = write(s0.mmu, 65534, 1)]
           /\ read(s1.mmu, 65534) = 1
           /\ read(s1.mmu, 65535) = 255
           /\ \A r \in {s1.a, s1.f, s1.b, s1.c, s1.d, s1.e, s1.h, s1.l} : r = 0
           /\ s1.panic = << >>

\* C29 witness: the first step() has just run on a CPU constructed over a boot
\* image holding a program at 0x38, after the host had written 0x1234 at 0xfffe; the
\* byte at 0xfffe is now 0x01.
C29_Witness ==
    /\ cpu # << >>
    /\ Len(hist) = 1
    /\ read(hist[1].mmu, 56) = 33
    /\ read(hist[1].mmu, 65534) = 52
    /\ Now.pc = 56 /\ Now.sp = 65534
    /\ read(Now.mmu, 65534) = 1

====
